---- MODULE Spec2Model ----
(***************************************************************************)
(* State-machine model of the WebSocket-to-agent bridge (src/src/lib.rs):  *)
(* the per-connection JSON-RPC dispatcher, the path sandbox, the           *)
(* permission-cached file writer and the prompt notification sender.       *)
(*                                                                         *)
(* A path string is modelled as the sequence of its "/"-separated          *)
(* segments, so "/etc/x" is <<"", "etc", "x">> and "./a.txt" is            *)
(* <<".", "a.txt">>; str.starts_with("/etc/") is then a test on the first  *)
(* segments of the sequence.                                               *)
(***************************************************************************)
EXTENDS Integers, Sequences, FiniteSets, TLC

VARIABLES
    initialized,  \* per connection: the `initialized` local of handle_websocket
    pc,           \* per connection: position of the connection task ("closed": no connection)
    req,          \* per connection: the request being processed and what it did so far
    out,          \* per connection: frames written since the current request was read
    cache,        \* shared.permission_cache: canonical path string -> decision
    cacheBy,      \* history: for each cache key, the connection that inserted it last
    files,        \* the file system's regular files: component path -> content
    handshake,    \* per connection slot: the last upgrade request and the response to it
    lock,         \* per connection: the task holding the stream mutex
    sender,       \* per connection: position of each notification sender task
    loginState,   \* per connection: the login automation state of auth/cli_login
    bridge,       \* the accept loop task, the shutdown channel and the handle
    cacheLock     \* the task holding the mutex of shared.permission_cache

vars == <<initialized, pc, req, out, cache, cacheBy, files, handshake, lock, sender,
          loginState, bridge, cacheLock>>

-----------------------------------------------------------------------------
(* Bounds *)

NumConns == 2
MaxUpdates == 2

Conns == 1..NumConns

\* notification sender tasks of one connection
Senders == 1..MaxUpdates

\* holders of a stream mutex: no task, the connection task, a sender task
Free == 0 - 1
Dispatcher == 0

-----------------------------------------------------------------------------
(* Inputs a client or the agent can supply *)

\* the connection slot used when one client is served at a time
Clients == {1}

\* request ids; "null" is what a request without an id gets
Ids == {"null", "req-1"}
SharedIds == {"req-1"}

ClientPaths ==
    { <<"a.txt">>,                         \* relative, resolves to /work/a.txt
      <<".", "a.txt">>,                    \* the same file
      <<"", "work", "b.txt">>,             \* absolute
      <<"", "etc", "x">>,                  \* forbidden before canonicalization
      <<"", "etc", "..", "work", "a.txt">>,\* forbidden text, harmless target
      <<"link", "passwd">>,                \* through the symlink /work/link -> /etc
      <<"..", "etc", "new">>,              \* climbs out of the working directory
      <<"nodir", "x">> }                   \* parent directory does not exist
SharedPaths == { <<"a.txt">>, <<"", "work", "a.txt">> }

\* file contents are sequences of characters
Contents == { <<"a", "\n", "b">> }

\* JSON values a client can put in line_offset / line_limit.  A u64 is written
\* as the pair of its digits in base 2^32, hi * 2^32 + lo; the key may also be
\* missing or hold something that is not a u64 (Value::as_u64 is None)
JsonU64(hi, lo) == [u64 |-> TRUE, hi |-> hi, lo |-> lo]
JsonAbsent == [u64 |-> FALSE, hi |-> 0, lo |-> 0]
LineOffsets == {JsonAbsent, JsonU64(0, 0), JsonU64(0, 2)}
LineLimits == {JsonAbsent, JsonU64(0, 1)}

\* Inputs of the text file reader: texts of up to three lines, with and
\* without a final newline, with an empty line and with a "\r\n" ending;
\* offsets and limits around the line count, large ones, and ones at and
\* above 2^32 (hi = 1)
BigU32 == 1000000000
ReaderPaths == { <<"a.txt">>, <<"", "work", "a.txt">> }
ReaderTexts ==
    { <<>>,
      <<"a">>,
      <<"a", "\n">>,
      <<"a", "\n", "b">>,
      <<"a", "\n", "b", "\n">>,
      <<"a", "\n", "\n", "b">>,
      <<"a", "\r", "\n", "b">>,
      <<"a", "\n", "b", "\n", "c">>,
      <<"a", "NUL">> }
ReaderOffsets ==
    { JsonAbsent, JsonU64(0, 0), JsonU64(0, 1), JsonU64(0, 2), JsonU64(0, 3),
      JsonU64(0, 4), JsonU64(0, BigU32), JsonU64(1, 0), JsonU64(1, 1) }
ReaderLimits ==
    { JsonAbsent, JsonU64(0, 0), JsonU64(0, 1), JsonU64(0, 2), JsonU64(0, BigU32),
      JsonU64(1, 1) }

\* Option<u32>::None
None == 0 - 1

PermissionOutcomes ==
    {"allow_once", "allow_always", "reject_once", "reject_always",
     "other_option", "Cancelled", "Failed"}

BridgeId == "bridge-test-id"

-----------------------------------------------------------------------------
(* WebSocket upgrade: origin allow-list and subprotocol negotiation *)

\* BridgeConfig.allowed_origins and BridgeConfig.expected_subprotocol; a
\* subprotocol token and a Sec-WebSocket-Protocol value are sequences of
\* characters
allowed_origins == {"http://localhost:5173"}
expected_subprotocol ==
    <<"a", "c", "p", ".", "j", "s", "o", "n", "r", "p", "c", ".", "v", "1">>

\* the Origin header of an upgrade request: missing, bytes that are not
\* visible ASCII (HeaderValue::to_str fails), or text
OriginMissing == [present |-> FALSE, text |-> FALSE, value |-> ""]
OriginNotText == [present |-> TRUE, text |-> FALSE, value |-> ""]
OriginText(v) == [present |-> TRUE, text |-> TRUE, value |-> v]

Origins ==
    { OriginMissing, OriginNotText,
      OriginText("http://localhost:5173"),
      OriginText("http://malicious.local"),
      OriginText("HTTP://LOCALHOST:5173"),     \* the allowed origin in another case
      OriginText("http://localhost:5173/") }   \* the allowed origin and one more byte

\* the Sec-WebSocket-Protocol header of an upgrade request
ProtocolMissing == [present |-> FALSE, text |-> FALSE, value |-> <<>>]
ProtocolNotText == [present |-> TRUE, text |-> FALSE, value |-> <<>>]
ProtocolText(v) == [present |-> TRUE, text |-> TRUE, value |-> v]

\* "acp.jsonrpc.v1" as clients may spell it
TokenLower == <<"a", "c", "p", ".", "j", "s", "o", "n", "r", "p", "c", ".", "v", "1">>
TokenUpper == <<"A", "C", "P", ".", "J", "S", "O", "N", "R", "P", "C", ".", "V", "1">>
TokenMixed == <<"A", "c", "p", ".", "J", "s", "o", "n", "R", "p", "c", ".", "v", "1">>

Protocols ==
    { ProtocolMissing, ProtocolNotText,
      ProtocolText(TokenLower),
      ProtocolText(TokenUpper),
      ProtocolText(<<"x", ",", " ">> \o TokenMixed \o <<" ">>),  \* "x, Acp.JsonRpc.v1 "
      ProtocolText(<<"x">>),
      ProtocolText(TokenLower \o <<"x">>),                        \* a longer token
      ProtocolText(<<"a", "c", "p", ",", "j", "s", "o", "n", "r", "p", "c", ".", "v", "1">>) }
                                                                  \* the token cut by a comma

\* the headers of a client that passes the handshake
GoodOrigin == OriginText("http://localhost:5173")
GoodProtocol == ProtocolText(TokenLower)

\* validate_origin: Ok(()) iff the header is text and equal to an allow-list entry
validate_origin(origin, allowed) ==
    /\ origin.present
    /\ origin.text
    /\ \E a \in allowed : a = origin.value

\* the characters of s before its first separator
RECURSIVE UpTo(_, _)
UpTo(s, sep) ==
    IF s = <<>> \/ Head(s) = sep THEN <<>> ELSE <<Head(s)>> \o UpTo(Tail(s), sep)

\* str::split(','): the pieces between the separators, empty pieces included
RECURSIVE Split(_, _)
Split(s, sep) ==
    LET first == UpTo(s, sep)
    IN  IF Len(first) = Len(s) THEN <<first>>
        ELSE <<first>> \o Split(SubSeq(s, Len(first) + 2, Len(s)), sep)

IsWhitespace(ch) == ch \in {" ", "\t"}

\* str::trim
RECURSIVE TrimStart(_)
TrimStart(s) ==
    IF s # <<>> /\ IsWhitespace(Head(s)) THEN TrimStart(Tail(s)) ELSE s

RECURSIVE TrimEnd(_)
TrimEnd(s) ==
    IF s # <<>> /\ IsWhitespace(s[Len(s)]) THEN TrimEnd(SubSeq(s, 1, Len(s) - 1)) ELSE s

Trim(s) == TrimEnd(TrimStart(s))

AsciiUpper == <<"A", "B", "C", "D", "E", "F", "G", "H", "I", "J", "K", "L", "M",
                "N", "O", "P", "Q", "R", "S", "T", "U", "V", "W", "X", "Y", "Z">>
AsciiLower == <<"a", "b", "c", "d", "e", "f", "g", "h", "i", "j", "k", "l", "m",
                "n", "o", "p", "q", "r", "s", "t", "u", "v", "w", "x", "y", "z">>

\* u8::to_ascii_lowercase
ToAsciiLowercase(ch) ==
    IF \E i \in 1..26 : AsciiUpper[i] = ch
    THEN AsciiLower[CHOOSE i \in 1..26 : AsciiUpper[i] = ch]
    ELSE ch

eq_ignore_ascii_case_Exact(a, b) == a = b

\* str::eq_ignore_ascii_case
eq_ignore_ascii_case(a, b) ==
    /\ Len(a) = Len(b)
    /\ \A i \in 1..Len(a) : ToAsciiLowercase(a[i]) = ToAsciiLowercase(b[i])

\* validate_subprotocol: has_expected == Some(true)
validate_subprotocol(protocol, expected) ==
    /\ protocol.present
    /\ protocol.text
    /\ LET candidates == Split(protocol.value, ",")
       IN  \E i \in 1..Len(candidates) :
               eq_ignore_ascii_case(Trim(candidates[i]), expected)

\* the HTTP response of the upgrade: status and Sec-WebSocket-Protocol header
HandshakeResponse(status, protocol) == [status |-> status, protocol |-> protocol]

accept_client_SubprotocolFirst(origin, protocol) ==
    IF ~validate_subprotocol(protocol, expected_subprotocol)
    THEN HandshakeResponse(426, <<>>)
    ELSE IF ~validate_origin(origin, allowed_origins)
    THEN HandshakeResponse(403, <<>>)
    ELSE HandshakeResponse(101, expected_subprotocol)

\* accept_client: the callback given to accept_hdr_async
accept_client(origin, protocol) ==
    IF ~validate_origin(origin, allowed_origins)
    THEN HandshakeResponse(403, <<>>)
    ELSE IF ~validate_subprotocol(protocol, expected_subprotocol)
    THEN HandshakeResponse(426, <<>>)
    ELSE HandshakeResponse(101, expected_subprotocol)

\* no upgrade request was made on the slot yet
NoHandshake ==
    [origin |-> OriginMissing, protocol |-> ProtocolMissing, status |-> 0, echo |-> <<>>]

-----------------------------------------------------------------------------
(* The file system the bridge runs on *)

Cwd == <<"work">>

Dirs == { <<>>, <<"work">>, <<"etc">> }

LinkTarget == [l \in { <<"work", "link">> } |-> <<"etc">>]

NoPath == <<"?">>

ForbiddenDirs == {"etc", "var", "root", "usr", "boot", "proc"}

\* str.starts_with("/etc/") || ... || str.starts_with("/proc/")
StartsWithForbidden(s) ==
    /\ Len(s) >= 3
    /\ s[1] = ""
    /\ s[2] \in ForbiddenDirs

\* Path::is_absolute
IsAbsolute(s) == Len(s) >= 2 /\ s[1] = ""

\* Path::components below the root: empty and "." segments are dropped
Components(s) == SelectSeq(s, LAMBDA x : x # "" /\ x # ".")

\* if path_buf.is_absolute() { path_buf } else { current_dir().join(path_buf) }
ResolvedPath(s) == IF IsAbsolute(s) THEN Components(s) ELSE Cwd \o Components(s)

\* Path::parent: the path without its last component
Parent(p) == IF p = <<>> THEN NoPath ELSE SubSeq(p, 1, Len(p) - 1)

\* Path::file_name: the last component unless it is ".."
FileName(p) == IF p = <<>> \/ p[Len(p)] = ".." THEN "?" ELSE p[Len(p)]

\* Path::canonicalize (realpath): resolves "..", symlinks; fails on a missing entry
RECURSIVE Walk(_, _, _)
Walk(fs, cur, rest) ==
    IF rest = <<>> THEN cur
    ELSE IF cur \in DOMAIN fs THEN NoPath
    ELSE LET x == Head(rest)
             nxt == Append(cur, x)
         IN  IF x = ".." THEN Walk(fs, IF cur = <<>> THEN cur ELSE Parent(cur), Tail(rest))
             ELSE IF nxt \in DOMAIN LinkTarget THEN Walk(fs, LinkTarget[nxt], Tail(rest))
             ELSE IF nxt \in Dirs \/ nxt \in DOMAIN fs THEN Walk(fs, nxt, Tail(rest))
             ELSE NoPath

Canonicalize(fs, p) == Walk(fs, <<>>, p)

\* Path::exists
Exists(fs, p) == Canonicalize(fs, p) # NoPath

\* to_string_lossy of an absolute component path
PathString(p) == IF p = <<>> THEN <<"", "">> ELSE <<"">> \o p

SandboxError == "path outside project root"

EscapesToSystemDir_Off(canonical) == FALSE

\* "Additional safety check": the prefix test on the canonical string
EscapesToSystemDir(canonical) == StartsWithForbidden(PathString(canonical))

\* the sandbox without canonicalization: the resolved client path is the key
validate_and_resolve_path_Uncanonical(fs, path, for_write) ==
    IF StartsWithForbidden(path)
    THEN [ok |-> FALSE, canon |-> NoPath, data |-> SandboxError]
    ELSE [ok |-> TRUE, canon |-> ResolvedPath(path), data |-> ""]

\* validate_and_resolve_path: [ok, canon (component path), data (error text)]
validate_and_resolve_path(fs, path, for_write) ==
    IF StartsWithForbidden(path)
    THEN [ok |-> FALSE, canon |-> NoPath, data |-> SandboxError]
    ELSE
      LET resolved == ResolvedPath(path)
          canonical ==
              IF for_write /\ ~Exists(fs, resolved)
              THEN LET parent == Parent(resolved)
                       cparent == IF parent = NoPath THEN NoPath
                                  ELSE Canonicalize(fs, parent)
                   IN  IF cparent = NoPath \/ FileName(resolved) = "?"
                       THEN NoPath
                       ELSE Append(cparent, FileName(resolved))
              ELSE Canonicalize(fs, resolved)
      IN  IF canonical = NoPath
          THEN [ok |-> FALSE, canon |-> NoPath,
                data |-> IF for_write THEN "invalid path" ELSE "file not found"]
          ELSE IF EscapesToSystemDir(canonical)
          THEN [ok |-> FALSE, canon |-> canonical, data |-> SandboxError]
          ELSE [ok |-> TRUE, canon |-> canonical, data |-> ""]

-----------------------------------------------------------------------------
(* Text file reader *)

\* the characters of s before its first "\n"
RECURSIVE FirstLine(_)
FirstLine(s) ==
    IF s = <<>> \/ Head(s) = "\n" THEN <<>> ELSE <<Head(s)>> \o FirstLine(Tail(s))

\* line.strip_suffix('\r') of a line that ended with "\n"
StripCr(l) ==
    IF l # <<>> /\ l[Len(l)] = "\r" THEN SubSeq(l, 1, Len(l) - 1) ELSE l

\* str::lines: split on "\n", a "\r" before the "\n" goes with it; a final
\* newline does not open an empty last line
RECURSIVE Lines(_)
Lines(s) ==
    IF s = <<>> THEN <<>>
    ELSE LET l == FirstLine(s)
         IN  IF Len(l) = Len(s) THEN <<l>>
             ELSE <<StripCr(l)>> \o Lines(SubSeq(s, Len(l) + 2, Len(s)))

\* [&str]::join("\n")
RECURSIVE Join(_)
Join(ls) ==
    IF ls = <<>> THEN <<>>
    ELSE IF Len(ls) = 1 THEN ls[1]
    ELSE ls[1] \o <<"\n">> \o Join(Tail(ls))

Min(a, b) == IF a <= b THEN a ELSE b

\* params.get(..).and_then(|v| v.as_u64()).map(|v| v as u32): the cast keeps
\* the low 32 bits
AsU32(v) == IF v.u64 THEN v.lo ELSE None

\* u32::saturating_sub(1)
SaturatingSub1(n) == IF n = 0 THEN 0 ELSE n - 1

apply_line_filter_ZeroBased(content, line_offset, line_limit) ==
    LET lines == Lines(content)
        n == Len(lines)
    IN  IF line_offset # None /\ line_limit # None THEN
            LET start_idx == Min(line_offset, n)
                end_idx == Min(start_idx + line_limit, n)
            IN  IF start_idx >= n THEN <<>>
                ELSE Join(SubSeq(lines, start_idx + 1, end_idx))
        ELSE IF line_offset # None THEN
            LET start_idx == Min(line_offset, n)
            IN  IF start_idx >= n THEN <<>>
                ELSE Join(SubSeq(lines, start_idx + 1, n))
        ELSE IF line_limit # None THEN
            Join(SubSeq(lines, 1, Min(line_limit, n)))
        ELSE content

apply_line_filter_AlwaysByLines(content, line_offset, line_limit) ==
    LET lines == Lines(content)
        n == Len(lines)
    IN  IF line_offset # None /\ line_limit # None THEN
            LET start_idx == Min(SaturatingSub1(line_offset), n)
                end_idx == Min(start_idx + line_limit, n)
            IN  IF start_idx >= n THEN <<>>
                ELSE Join(SubSeq(lines, start_idx + 1, end_idx))
        ELSE IF line_offset # None THEN
            LET start_idx == Min(SaturatingSub1(line_offset), n)
            IN  IF start_idx >= n THEN <<>>
                ELSE Join(SubSeq(lines, start_idx + 1, n))
        ELSE IF line_limit # None THEN
            Join(SubSeq(lines, 1, Min(line_limit, n)))
        ELSE Join(lines)

\* apply_line_filter, on Option<u32> arguments (None for an absent one)
apply_line_filter(content, line_offset, line_limit) ==
    LET lines == Lines(content)
        n == Len(lines)
    IN  IF line_offset # None /\ line_limit # None THEN
            LET start_idx == Min(SaturatingSub1(line_offset), n)
                end_idx == Min(start_idx + line_limit, n)
            IN  IF start_idx >= n THEN <<>>
                ELSE Join(SubSeq(lines, start_idx + 1, end_idx))
        ELSE IF line_offset # None THEN
            LET start_idx == Min(SaturatingSub1(line_offset), n)
            IN  IF start_idx >= n THEN <<>>
                ELSE Join(SubSeq(lines, start_idx + 1, n))
        ELSE IF line_limit # None THEN
            Join(SubSeq(lines, 1, Min(line_limit, n)))
        ELSE content

Contains(s, x) == \E i \in 1..Len(s) : s[i] = x

\* handle_read_text_file: [ok, content, data]
handle_read_text_file(fs, path, line_offset, line_limit) ==
    LET v == validate_and_resolve_path(fs, path, FALSE)
    IN  IF ~v.ok THEN [ok |-> FALSE, content |-> <<>>, data |-> v.data]
        ELSE IF v.canon \notin DOMAIN fs
        THEN [ok |-> FALSE, content |-> <<>>, data |-> "file not found"]
        ELSE IF Contains(fs[v.canon], "NUL")
        THEN [ok |-> FALSE, content |-> <<>>, data |-> "binary file not supported"]
        ELSE IF Contains(fs[v.canon], "BAD")
        THEN [ok |-> FALSE, content |-> <<>>, data |-> "file contains invalid UTF-8"]
        ELSE [ok |-> TRUE,
              content |-> apply_line_filter(fs[v.canon], line_offset, line_limit),
              data |-> ""]

-----------------------------------------------------------------------------
(* JSON-RPC errors, replies and frames *)

RpcError(code, message, data) == [code |-> code, message |-> message, data |-> data]

NoError == RpcError(0, "", "")
parse_error == RpcError(-32700, "Parse error", "")
invalid_request == RpcError(-32600, "Invalid request", "")
method_not_found == RpcError(-32601, "Method not found", "")
invalid_params(data) == RpcError(-32602, "Invalid params", data)
internal_error(data) == RpcError(-32603, "Internal error", data)
\* acp::Error::new((-32000, message))
server_error(message) == RpcError(-32000, message, "")

\* AgentTransportError::into_rpc_error for an Internal(message) failure
into_rpc_error == internal_error("agent failure")

NoResult == [tag |-> "none"]
NoReply == [kind |-> "none", id |-> "null", error |-> NoError, result |-> NoResult]

\* the payload built by send_error
send_error(id, e) == [kind |-> "error", id |-> id, error |-> e, result |-> NoResult]

\* the payload built by send_result
send_result(id, r) == [kind |-> "result", id |-> id, error |-> NoError, result |-> r]

\* the payload built by WebSocketNotificationSender::send_notification
Notification(method, params) == [method |-> method, params |-> params]

-----------------------------------------------------------------------------
(* The _meta value of an agent's InitializeResponse *)

NoMeta == [kind |-> "none", map |-> <<>>]

\* None, Some(object with its own bridgeId), Some(object without one),
\* Some(a value that is not an object)
AgentMetas ==
    { NoMeta,
      [kind |-> "object",
       map |-> [k \in {"vendor", "bridgeId"} |->
                    IF k = "vendor" THEN "acme" ELSE "agent-id"]],
      [kind |-> "object", map |-> [k \in {"vendor"} |-> "acme"]],
      [kind |-> "string", map |-> <<>>] }

ensure_bridge_meta_KeepsAgentId(meta, bridge_id) ==
    LET map == IF meta.kind = "object" THEN meta.map ELSE <<>>
    IN  [kind |-> "object",
         map |-> [k \in (DOMAIN map) \cup {"bridgeId"} |->
                      IF k \in DOMAIN map THEN map[k] ELSE bridge_id]]

ensure_bridge_meta(meta, bridge_id) ==
    LET map == IF meta.kind = "object" THEN meta.map ELSE <<>>
    IN  [kind |-> "object",
         map |-> [k \in (DOMAIN map) \cup {"bridgeId"} |->
                      IF k = "bridgeId" THEN bridge_id ELSE map[k]]]

-----------------------------------------------------------------------------
(* The login automation state of one auth/cli_login call *)

\* Option<String>::None of extract_login_url
NoUrl == <<>>

NoLogin ==
    [ child |-> "none",      \* the spawned CLI: "none", "running", "exited"
      output |-> <<>>,       \* what the child has still to print
      pty |-> <<>>,          \* printed by the child, not yet read from the master
      reader |-> "none",     \* reader thread: "check" (loop test), "read", "exited"
      writer |-> "none",     \* writer thread: "running", "exited"
      stop |-> FALSE,        \* automation_stop
      channel |-> <<>>,      \* chunks sent by the reader, not yet received
      rx |-> FALSE,          \* the receiving end of the channel exists
      collected |-> <<>>,    \* the capture future's buffer
      result |-> "none",     \* capture_result: "url", "eof", "timeout"
      url |-> NoUrl ]

-----------------------------------------------------------------------------
(* Resolution of the login CLI from the process environment *)

\* An environment variable is an Option: <<>> when std::env::var returns Err,
\* <<v>> when it returns Ok(v)
EnvUnset == <<>>

TestCliPath == "/tmp/fake-claude"
AcpBinPath == "/opt/claude-acp"
AcpEntryPath == "node_modules/@zed-industries/claude-code-acp/dist/index.js"
CliJsPath == "node_modules/@anthropic-ai/claude-code/cli.js"
WhichClaudePath == "/usr/bin/claude"

\* what resolution reads: three variables, the paths that exist, and the
\* result of which::which("claude")
Envs ==
    [ TEST_MODE_FAIL : {EnvUnset, <<"1">>},
      TEST_CLAUDE_CLI_PATH : {EnvUnset, <<TestCliPath>>},
      CLAUDE_ACP_BIN : {EnvUnset, <<AcpBinPath>>},
      exists : SUBSET {TestCliPath, AcpBinPath, AcpEntryPath, CliJsPath},
      which : {EnvUnset, <<WhichClaudePath>>} ]

NoEnv ==
    [ TEST_MODE_FAIL |-> EnvUnset, TEST_CLAUDE_CLI_PATH |-> EnvUnset,
      CLAUDE_ACP_BIN |-> EnvUnset, exists |-> {}, which |-> EnvUnset ]

\* the environments of the login runs followed thread by thread
LoginEnvs ==
    { [NoEnv EXCEPT !.TEST_MODE_FAIL = <<"1">>, !.which = <<WhichClaudePath>>],
      [NoEnv EXCEPT !.TEST_CLAUDE_CLI_PATH = <<TestCliPath>>],
      [NoEnv EXCEPT !.which = <<WhichClaudePath>>] }

\* Result<(PathBuf, Vec<String>), acp::Error>
Command(path, args) == [ok |-> TRUE, path |-> path, args |-> args]
NoCommand == [ok |-> FALSE, path |-> "", args |-> <<>>]

UnableToLocate == "Unable to locate Claude login CLI"

\* find_claude_code_cli_from_node_modules: Some((node, [cli.js])) or None
find_claude_code_cli_from_node_modules(env) ==
    IF AcpEntryPath \in env.exists /\ CliJsPath \in env.exists
    THEN Command("node", <<CliJsPath>>)
    ELSE NoCommand

resolve_claude_login_command_TrustsAcpBin(env) ==
    IF env.TEST_MODE_FAIL # EnvUnset THEN NoCommand
    ELSE IF env.TEST_CLAUDE_CLI_PATH # EnvUnset
         THEN Command(env.TEST_CLAUDE_CLI_PATH[1], <<>>)
    ELSE IF env.CLAUDE_ACP_BIN # EnvUnset
         THEN Command(env.CLAUDE_ACP_BIN[1], <<>>)
    ELSE IF find_claude_code_cli_from_node_modules(env).ok
         THEN find_claude_code_cli_from_node_modules(env)
    ELSE IF env.which # EnvUnset THEN Command(env.which[1], <<>>)
    ELSE NoCommand

\* resolve_claude_login_command: NoCommand is the error -32000
resolve_claude_login_command(env) ==
    IF env.TEST_MODE_FAIL # EnvUnset THEN NoCommand
    ELSE IF env.TEST_CLAUDE_CLI_PATH # EnvUnset
         THEN Command(env.TEST_CLAUDE_CLI_PATH[1], <<>>)
    ELSE IF env.CLAUDE_ACP_BIN # EnvUnset /\ env.CLAUDE_ACP_BIN[1] \in env.exists
         THEN Command(env.CLAUDE_ACP_BIN[1], <<>>)
    ELSE IF find_claude_code_cli_from_node_modules(env).ok
         THEN find_claude_code_cli_from_node_modules(env)
    ELSE IF env.which # EnvUnset THEN Command(env.which[1], <<>>)
    ELSE NoCommand

\* the ways handle_auth_cli_login can fail between resolution and the start
\* of its threads; "ok" when it does not
LoginSetups ==
    {"ok", "no_cwd", "no_pty", "bad_path", "no_spawn", "no_reader", "no_writer"}

\* the data of the internal error of a failed setup step
SetupError(setup) ==
    CASE setup = "no_cwd" -> "failed to get current directory"
      [] setup = "no_pty" -> "failed to open pty"
      [] setup = "bad_path" -> "invalid Claude CLI path"
      [] setup = "no_spawn" -> "failed to spawn login CLI"
      [] setup = "no_reader" -> "failed to clone pty reader"
      [] setup = "no_writer" -> "failed to take pty writer"

\* pair.slave.spawn_command succeeded before the step that failed
SpawnedBefore(setup) == setup \in {"ok", "no_reader", "no_writer"}

\* cli_path.to_str() can fail only for a path that is not a String of the
\* environment: the one which::which found
SetupPossible(command, setup) ==
    setup = "bad_path" => (command.args = <<>> /\ command.path = WhichClaudePath)

-----------------------------------------------------------------------------
(* The bridge: what serve() leaves running *)

\* the state after serve() returned its handle
Serving ==
    [ loop |-> "running",     \* the task of spawn_accept_loop: "running", "ended"
      signal |-> FALSE,       \* a value was sent on the shutdown channel
      shutdown |-> "held",    \* BridgeHandle::shutdown: "held" (not called),
                              \* "joining" (awaiting the loop task), "ok"
      failed |-> FALSE,       \* history: listener.accept() returned an error
      late |-> FALSE ]        \* history: a connection was accepted after the signal

-----------------------------------------------------------------------------
(* Per-request record: what was asked and what the handler did so far *)

IdleReq ==
    [ json |-> TRUE,          \* the frame parsed as JSON
      method |-> "",          \* "" when the request has no string method
      id |-> "null",
      path |-> <<>>,          \* params.path as given by the client
      content |-> <<>>,
      line_offset |-> JsonAbsent,  \* params.line_offset as given
      line_limit |-> JsonAbsent,   \* params.line_limit as given
      canon |-> NoPath,       \* canonical_path_str
      known |-> FALSE,        \* history: the cache had an entry for canon when the
                              \* request was read
      lookup |-> "unset",     \* cached_decision: "None", "AllowAlways", "RejectAlways"
      outcome |-> "unset",    \* what agent.request_permission returned
      agent |-> {},           \* agent methods called for this request
      agentOk |-> FALSE,      \* the agent's initialize returned Ok
      agentMeta |-> NoMeta,   \* the _meta of the agent's InitializeResponse
      fsAccess |-> FALSE,     \* the handler touched the file system
      cacheAccess |-> FALSE,  \* the handler locked the permission cache
      inserted |-> FALSE,     \* the handler inserted a cache entry
      wrote |-> FALSE,        \* the handler called fs::write
      spawned |-> FALSE,      \* the handler spawned the login CLI
      env |-> NoEnv,          \* the environment the login CLI was resolved in
      command |-> NoCommand,  \* what resolve_claude_login_command returned
      handed |-> <<>>,        \* updates the agent handed to the notification sender
      reply |-> NoReply ]

Open(c) == pc[c] # "closed"

TypeOK ==
    /\ initialized \in [Conns -> BOOLEAN]
    /\ pc \in [Conns -> {"closed", "read", "prompt", "w_lookup", "w_perm",
                         "w_insert", "w_write", "reply",
                         "r_lock", "r_next", "reply_send", "pong", "pong_send",
                         "l_capture", "l_join_writer", "l_join_reader",
                         "m_read", "m_close", "w_lookup_get", "w_insert_put"}]
    /\ lock \in [Conns -> {Free, Dispatcher} \cup Senders]
    /\ sender \in [Conns -> [Senders -> {"idle", "lock", "send"}]]
    /\ \A c \in Conns : handshake[c].status \in {0, 101, 403, 426}
    /\ \A c \in Conns : req[c].reply.kind \in {"none", "error", "result"}
    /\ \A k \in DOMAIN cache : cache[k] \in {"AllowAlways", "RejectAlways"}
    /\ DOMAIN cacheBy = DOMAIN cache
    /\ bridge.loop \in {"running", "ended"}
    /\ bridge.shutdown \in {"held", "joining", "ok"}
    /\ cacheLock \in {Free} \cup Conns

Init ==
    /\ initialized = [c \in Conns |-> FALSE]
    /\ pc = [c \in Conns |-> "closed"]
    /\ req = [c \in Conns |-> IdleReq]
    /\ out = [c \in Conns |-> <<>>]
    /\ cache = <<>>
    /\ cacheBy = <<>>
    /\ files = [p \in { <<"etc", "passwd">> } |-> <<"r">>]
    /\ handshake = [c \in Conns |-> NoHandshake]
    /\ lock = [c \in Conns |-> Free]
    /\ sender = [c \in Conns |-> [k \in Senders |-> "idle"]]
    /\ loginState = [c \in Conns |-> NoLogin]
    /\ bridge = Serving
    /\ cacheLock = Free

\* the handler has its reply ready: next it locks the stream and sends it
Finish(c, r, reply) ==
    /\ pc' = [pc EXCEPT ![c] = "reply"]
    /\ req' = [req EXCEPT ![c] = [r EXCEPT !.reply = reply]]

\* the handler goes on to its next await point
Goto(c, r, label) ==
    /\ pc' = [pc EXCEPT ![c] = label]
    /\ req' = [req EXCEPT ![c] = r]

-----------------------------------------------------------------------------
(* Accept loop and read loop *)

\* spawn_accept_loop accepts a TCP connection and handle_client runs the
\* upgrade; when it succeeds handle_websocket starts with initialized = false
\* and waits for the first frame, otherwise the task ends with the error response
Accept(c, origin, protocol) ==
    /\ bridge.loop = "running"
    /\ pc[c] = "closed"
    /\ LET response == accept_client(origin, protocol)
       IN  /\ handshake' = [handshake EXCEPT ![c] =
                   [origin |-> origin, protocol |-> protocol,
                    status |-> response.status, echo |-> response.protocol]]
           /\ pc' = [pc EXCEPT ![c] = IF response.status = 101 THEN "read" ELSE "closed"]
    /\ initialized' = [initialized EXCEPT ![c] = FALSE]
    /\ bridge' = [bridge EXCEPT !.late = @ \/ bridge.signal]
    /\ UNCHANGED <<cacheLock, lock, sender, loginState, req, out, cache, cacheBy, files>>

\* spawn_accept_loop: listener.accept() returns Err, the loop breaks
AcceptError ==
    /\ bridge.loop = "running"
    /\ bridge' = [bridge EXCEPT !.loop = "ended", !.failed = TRUE]
    /\ UNCHANGED <<cacheLock, initialized, pc, req, out, cache, cacheBy, files, handshake, lock,
                   sender, loginState>>

\* spawn_accept_loop: the select takes the shutdown branch, the loop breaks
AcceptLoopShutdown ==
    /\ bridge.loop = "running"
    /\ bridge.signal
    /\ bridge' = [bridge EXCEPT !.loop = "ended"]
    /\ UNCHANGED <<cacheLock, initialized, pc, req, out, cache, cacheBy, files, handshake, lock,
                   sender, loginState>>

\* BridgeHandle::shutdown, first poll of its future: sender.send(()), whose
\* error (the loop has gone) is ignored; then it awaits the loop task
Shutdown_NoSignal ==
    /\ bridge.shutdown = "held"
    /\ bridge' = [bridge EXCEPT !.shutdown = "joining"]
    /\ UNCHANGED <<cacheLock, initialized, pc, req, out, cache, cacheBy, files, handshake, lock,
                   sender, loginState>>

Shutdown ==
    /\ bridge.shutdown = "held"
    /\ bridge' = [bridge EXCEPT !.signal = (bridge.loop = "running"),
                                !.shutdown = "joining"]
    /\ UNCHANGED <<cacheLock, initialized, pc, req, out, cache, cacheBy, files, handshake, lock,
                   sender, loginState>>

ShutdownJoined_DropsConnections ==
    /\ bridge.shutdown = "joining"
    /\ bridge.loop = "ended"
    /\ bridge' = [bridge EXCEPT !.shutdown = "ok"]
    /\ pc' = [c \in Conns |-> "closed"]
    /\ initialized' = [c \in Conns |-> FALSE]
    /\ req' = [c \in Conns |-> IdleReq]
    /\ UNCHANGED <<cacheLock, out, cache, cacheBy, files, handshake, lock, sender, loginState>>

\* BridgeHandle::shutdown: handle.await returns, the future yields Ok(())
ShutdownJoined ==
    /\ bridge.shutdown = "joining"
    /\ bridge.loop = "ended"
    /\ bridge' = [bridge EXCEPT !.shutdown = "ok"]
    /\ UNCHANGED <<cacheLock, initialized, pc, req, out, cache, cacheBy, files, handshake, lock,
                   sender, loginState>>

\* a map without the keys in ks
MapWithout(map, ks) == [k \in (DOMAIN map) \ ks |-> map[k]]

CloseConn_DropsEntries(c) ==
    /\ pc[c] = "read"
    /\ pc' = [pc EXCEPT ![c] = "closed"]
    /\ initialized' = [initialized EXCEPT ![c] = FALSE]
    /\ LET mine == {k \in DOMAIN cache : cacheBy[k] = c}
       IN  /\ cache' = MapWithout(cache, mine)
           /\ cacheBy' = MapWithout(cacheBy, mine)
    /\ UNCHANGED <<cacheLock, bridge, handshake, lock, sender, loginState, req, out, files>>

\* the read loop receives Close or the end of the stream
CloseConn(c) ==
    /\ pc[c] = "read"
    /\ pc' = [pc EXCEPT ![c] = "closed"]
    /\ initialized' = [initialized EXCEPT ![c] = FALSE]
    /\ UNCHANGED <<cacheLock, bridge, handshake, lock, sender, loginState, req, out, cache, cacheBy, files>>

RecvMalformed_InvalidRequest(c) ==
    /\ pc[c] = "read"
    /\ Finish(c, [IdleReq EXCEPT !.json = FALSE], send_error("null", invalid_request))
    /\ UNCHANGED <<cacheLock, bridge, handshake, lock, sender, loginState, initialized, out, cache, cacheBy, files>>

\* a text or binary data frame that is not JSON
RecvMalformed(c) ==
    /\ pc[c] = "read"
    /\ Finish(c, [IdleReq EXCEPT !.json = FALSE], send_error("null", parse_error))
    /\ UNCHANGED <<cacheLock, bridge, handshake, lock, sender, loginState, initialized, out, cache, cacheBy, files>>

RecvNoMethod_NullId(c, id) ==
    /\ pc[c] = "read"
    /\ Finish(c, [IdleReq EXCEPT !.id = id], send_error("null", invalid_request))
    /\ UNCHANGED <<cacheLock, bridge, handshake, lock, sender, loginState, initialized, out, cache, cacheBy, files>>

\* process_request: a JSON value without a string "method"
RecvNoMethod(c, id) ==
    /\ pc[c] = "read"
    /\ Finish(c, [IdleReq EXCEPT !.id = id], send_error(id, invalid_request))
    /\ UNCHANGED <<cacheLock, bridge, handshake, lock, sender, loginState, initialized, out, cache, cacheBy, files>>

RecvInitialize_StampsOnce(c, id, paramsOk, agentOk, meta) ==
    /\ pc[c] = "read"
    /\ LET r == [IdleReq EXCEPT !.id = id, !.method = "initialize"]
       IN  IF ~paramsOk
           THEN Finish(c, r, send_error(id, invalid_params("parse diagnostic")))
           ELSE LET r2 == [r EXCEPT !.agent = {"initialize"}]
                IN  IF agentOk
                    THEN Finish(c, [r2 EXCEPT !.agentOk = TRUE, !.agentMeta = meta],
                             send_result(id,
                                 [tag |-> "initialize",
                                  meta |-> IF initialized[c] THEN meta
                                           ELSE ensure_bridge_meta(meta, BridgeId)]))
                    ELSE Finish(c, r2, send_error(id, into_rpc_error))
    /\ UNCHANGED <<cacheLock, bridge, handshake, lock, sender, loginState, initialized, out, cache, cacheBy, files>>

\* process_request, "initialize": the agent's answer is part of the step
RecvInitialize(c, id, paramsOk, agentOk, meta) ==
    /\ pc[c] = "read"
    /\ LET r == [IdleReq EXCEPT !.id = id, !.method = "initialize"]
       IN  IF ~paramsOk
           THEN Finish(c, r, send_error(id, invalid_params("parse diagnostic")))
           ELSE LET r2 == [r EXCEPT !.agent = {"initialize"}]
                IN  IF agentOk
                    THEN Finish(c, [r2 EXCEPT !.agentOk = TRUE, !.agentMeta = meta],
                             send_result(id,
                                 [tag |-> "initialize",
                                  meta |-> ensure_bridge_meta(meta, BridgeId)]))
                    ELSE Finish(c, r2, send_error(id, into_rpc_error))
    /\ UNCHANGED <<cacheLock, bridge, handshake, lock, sender, loginState, initialized, out, cache, cacheBy, files>>

\* process_request, "session/new"
RecvSessionNew(c, id, paramsOk, agentOk) ==
    /\ pc[c] = "read"
    /\ LET r == [IdleReq EXCEPT !.id = id, !.method = "session/new"]
       IN  IF ~initialized[c]
           THEN Finish(c, r, send_error(id, method_not_found))
           ELSE IF ~paramsOk
           THEN Finish(c, r, send_error(id, invalid_params("parse diagnostic")))
           ELSE LET r2 == [r EXCEPT !.agent = {"new_session"}]
                IN  IF agentOk
                    THEN Finish(c, r2, send_result(id, [tag |-> "new_session"]))
                    ELSE Finish(c, r2, send_error(id, into_rpc_error))
    /\ UNCHANGED <<cacheLock, bridge, handshake, lock, sender, loginState, initialized, out, cache, cacheBy, files>>

RecvPrompt_Detached(c, id) ==
    /\ pc[c] = "read"
    /\ LET r == [IdleReq EXCEPT !.id = id, !.method = "session/prompt"]
       IN  IF ~initialized[c]
           THEN Finish(c, r, send_error(id, method_not_found))
           ELSE Goto(c, [r EXCEPT !.agent = {"prompt"}], "r_lock")
    /\ UNCHANGED <<cacheLock, bridge, handshake, lock, sender, loginState, initialized, out, cache, cacheBy, files>>

\* process_request, "session/prompt": agent.prompt is called with a
\* notification sender bound to this connection
RecvPrompt(c, id) ==
    /\ pc[c] = "read"
    /\ LET r == [IdleReq EXCEPT !.id = id, !.method = "session/prompt"]
       IN  IF ~initialized[c]
           THEN Finish(c, r, send_error(id, method_not_found))
           ELSE Goto(c, [r EXCEPT !.agent = {"prompt"}], "prompt")
    /\ UNCHANGED <<cacheLock, bridge, handshake, lock, sender, loginState, initialized, out, cache, cacheBy, files>>

\* the agent hands its next update to send_notification and awaits it
\* (the k-th update of a prompt carries the index k)
AgentNotify(c) ==
    /\ pc[c] = "prompt"
    /\ Len(out[c]) = Len(req[c].handed)
    /\ Len(req[c].handed) < MaxUpdates
    /\ req' = [req EXCEPT ![c].handed = Append(@, Len(@) + 1)]
    /\ UNCHANGED <<cacheLock, bridge, handshake, lock, sender, loginState, initialized, pc, out, cache, cacheBy, files>>

SinkSend_Prepends(frames, frame) == <<frame>> \o frames

\* send_json: stream.send(Message::Text(..)) puts the frame after those sent before
SinkSend(frames, frame) == Append(frames, frame)

\* WebSocketNotificationSender::send_notification locks the stream and writes
\* the frame; when the stream is gone nothing more reaches this client
send_notification(c, ok) ==
    /\ pc[c] = "prompt"
    /\ Len(out[c]) < Len(req[c].handed)
    /\ IF ok
       THEN /\ out' = [out EXCEPT ![c] = SinkSend(@,
                        Notification("session/update", req[c].handed[Len(@) + 1]))]
            /\ UNCHANGED <<initialized, pc, req>>
       ELSE /\ pc' = [pc EXCEPT ![c] = "closed"]
            /\ initialized' = [initialized EXCEPT ![c] = FALSE]
            /\ req' = [req EXCEPT ![c] = IdleReq]
            /\ out' = [out EXCEPT ![c] = <<>>]
    /\ UNCHANGED <<cacheLock, bridge, handshake, lock, sender, loginState, cache, cacheBy, files>>

\* agent.prompt returns
PromptReturns(c, agentOk) ==
    /\ pc[c] = "prompt"
    /\ Len(out[c]) = Len(req[c].handed)
    /\ IF agentOk
       THEN Finish(c, req[c], send_result(req[c].id,
                [tag |-> "prompt", stopReason |-> "end_turn"]))
       ELSE Finish(c, req[c], send_error(req[c].id, into_rpc_error))
    /\ UNCHANGED <<cacheLock, bridge, handshake, lock, sender, loginState, initialized, out, cache, cacheBy, files>>

\* process_request, "fs/read_text_file"
RecvRead(c, id, hasPath, path, line_offset, line_limit) ==
    /\ pc[c] = "read"
    /\ LET r == [IdleReq EXCEPT !.id = id, !.method = "fs/read_text_file"]
       IN  IF ~initialized[c]
           THEN Finish(c, r, send_error(id, method_not_found))
           ELSE IF ~hasPath
           THEN Finish(c, r, send_error(id,
                    invalid_params("missing or invalid path parameter")))
           ELSE LET res == handle_read_text_file(files, path,
                               AsU32(line_offset), AsU32(line_limit))
                    r2 == [r EXCEPT !.path = path,
                                    !.line_offset = line_offset,
                                    !.line_limit = line_limit,
                                    !.fsAccess = ~StartsWithForbidden(path)]
                IN  IF res.ok
                    THEN Finish(c, r2, send_result(id,
                             [tag |-> "content", content |-> res.content]))
                    ELSE Finish(c, r2, send_error(id, internal_error(res.data)))
    /\ UNCHANGED <<cacheLock, bridge, handshake, lock, sender, loginState, initialized, out, cache, cacheBy, files>>

RecvWrite_KeysClientPath(c, id, missing, path, content, mkdirOk) ==
    /\ pc[c] = "read"
    /\ LET r == [IdleReq EXCEPT !.id = id, !.method = "fs/write_text_file"]
       IN  IF ~initialized[c]
           THEN Finish(c, r, send_error(id, method_not_found))
           ELSE IF missing # "none"
           THEN Finish(c, r, send_error(id,
                    invalid_params("missing or invalid parameter")))
           ELSE LET v == validate_and_resolve_path(files, path, TRUE)
                    r2 == [r EXCEPT !.path = path, !.content = content,
                                    !.fsAccess = ~StartsWithForbidden(path)]
                IN  IF ~v.ok
                    THEN Finish(c, r2, send_error(id, internal_error(v.data)))
                    ELSE IF ~mkdirOk
                    THEN Finish(c, r2, send_error(id,
                             internal_error("failed to create parent directories")))
                    ELSE Goto(c, [r2 EXCEPT !.canon = PathString(ResolvedPath(path)),
                                            !.known = (PathString(ResolvedPath(path))
                                                          \in DOMAIN cache)],
                              "w_lookup")
    /\ UNCHANGED <<cacheLock, bridge, handshake, lock, sender, loginState, initialized, out, cache, cacheBy, files>>

\* process_request, "fs/write_text_file", and handle_write_text_file up to
\* its first await: parameter extraction, sandbox, create_dir_all
RecvWrite(c, id, missing, path, content, mkdirOk) ==
    /\ pc[c] = "read"
    /\ LET r == [IdleReq EXCEPT !.id = id, !.method = "fs/write_text_file"]
       IN  IF ~initialized[c]
           THEN Finish(c, r, send_error(id, method_not_found))
           ELSE IF missing # "none"
           THEN Finish(c, r, send_error(id,
                    invalid_params("missing or invalid parameter")))
           ELSE LET v == validate_and_resolve_path(files, path, TRUE)
                    r2 == [r EXCEPT !.path = path, !.content = content,
                                    !.fsAccess = ~StartsWithForbidden(path)]
                IN  IF ~v.ok
                    THEN Finish(c, r2, send_error(id, internal_error(v.data)))
                    ELSE IF ~mkdirOk
                    THEN Finish(c, r2, send_error(id,
                             internal_error("failed to create parent directories")))
                    ELSE Goto(c, [r2 EXCEPT !.canon = PathString(v.canon),
                                            !.known = (PathString(v.canon) \in DOMAIN cache)],
                              "w_lookup")
    /\ UNCHANGED <<cacheLock, bridge, handshake, lock, sender, loginState, initialized, out, cache, cacheBy, files>>

\* HashMap::get(..).cloned()
MapGet(map, key) == IF key \in DOMAIN map THEN map[key] ELSE "None"

Lookup_RejectAsks(c) ==
    /\ pc[c] = "w_lookup"
    /\ LET cached_decision == MapGet(cache, req[c].canon)
           r == [req[c] EXCEPT !.cacheAccess = TRUE, !.lookup = cached_decision]
       IN  IF cached_decision = "AllowAlways" THEN Goto(c, r, "w_write")
           ELSE Goto(c, [r EXCEPT !.agent = {"request_permission"}], "w_perm")
    /\ UNCHANGED <<cacheLock, bridge, handshake, lock, sender, loginState, initialized, out, cache, cacheBy, files>>

Lookup_AllowAsks(c) ==
    /\ pc[c] = "w_lookup"
    /\ LET cached_decision == MapGet(cache, req[c].canon)
           r == [req[c] EXCEPT !.cacheAccess = TRUE, !.lookup = cached_decision]
       IN  IF cached_decision = "RejectAlways"
           THEN Finish(c, r, send_error(r.id, server_error("Permission denied")))
           ELSE Goto(c, [r EXCEPT !.agent = {"request_permission"}], "w_perm")
    /\ UNCHANGED <<cacheLock, bridge, handshake, lock, sender, loginState, initialized, out, cache, cacheBy, files>>

\* handle_write_text_file: "Check permission cache first"
Lookup(c) ==
    /\ pc[c] = "w_lookup"
    /\ LET cached_decision == MapGet(cache, req[c].canon)
           r == [req[c] EXCEPT !.cacheAccess = TRUE, !.lookup = cached_decision]
       IN  IF cached_decision = "AllowAlways" THEN Goto(c, r, "w_write")
           ELSE IF cached_decision = "RejectAlways"
           THEN Finish(c, r, send_error(r.id, server_error("Permission denied")))
           ELSE Goto(c, [r EXCEPT !.agent = {"request_permission"}], "w_perm")
    /\ UNCHANGED <<cacheLock, bridge, handshake, lock, sender, loginState, initialized, out, cache, cacheBy, files>>

PermissionDenied == server_error("Permission denied")

Outcome(next, error) == [next |-> next, error |-> error]

AfterOutcome_RejectOnceWrites(outcome) ==
    CASE outcome = "Failed" -> Outcome("reply", internal_error("permission request failed"))
      [] outcome \in {"allow_once", "reject_once"} -> Outcome("w_write", NoError)
      [] outcome \in {"allow_always", "reject_always"} -> Outcome("w_insert", NoError)
      [] outcome = "other_option" -> Outcome("reply", server_error("Unknown permission option"))
      [] outcome = "Cancelled" -> Outcome("reply", server_error("Permission request cancelled"))

AfterOutcome_AllowOnceCaches(outcome) ==
    CASE outcome = "Failed" -> Outcome("reply", internal_error("permission request failed"))
      [] outcome \in {"allow_once", "allow_always", "reject_always"} ->
             Outcome("w_insert", NoError)
      [] outcome = "reject_once" -> Outcome("reply", PermissionDenied)
      [] outcome = "other_option" -> Outcome("reply", server_error("Unknown permission option"))
      [] outcome = "Cancelled" -> Outcome("reply", server_error("Permission request cancelled"))

\* "Check the permission outcome and update cache": where each outcome of
\* agent.request_permission leads
AfterOutcome(outcome) ==
    CASE outcome = "Failed" -> Outcome("reply", internal_error("permission request failed"))
      [] outcome = "allow_once" -> Outcome("w_write", NoError)
      [] outcome \in {"allow_always", "reject_always"} -> Outcome("w_insert", NoError)
      [] outcome = "reject_once" -> Outcome("reply", PermissionDenied)
      [] outcome = "other_option" -> Outcome("reply", server_error("Unknown permission option"))
      [] outcome = "Cancelled" -> Outcome("reply", server_error("Permission request cancelled"))

\* agent.request_permission returns
PermissionReturns(c, outcome) ==
    /\ pc[c] = "w_perm"
    /\ LET r == [req[c] EXCEPT !.outcome = outcome]
           a == AfterOutcome(outcome)
       IN  IF a.next = "reply" THEN Finish(c, r, send_error(r.id, a.error))
           ELSE Goto(c, r, a.next)
    /\ UNCHANGED <<cacheLock, bridge, handshake, lock, sender, loginState, initialized, out, cache, cacheBy, files>>

\* HashMap::insert: adds the key or replaces its value
MapInsert(map, key, value) ==
    [k \in (DOMAIN map) \cup {key} |-> IF k = key THEN value ELSE map[k]]

\* handle_write_text_file: cache.insert(canonical_path_str, decision) under the lock
Insert(c) ==
    /\ pc[c] = "w_insert"
    /\ LET r == [req[c] EXCEPT !.inserted = TRUE]
           decision == IF r.outcome = "allow_always" THEN "AllowAlways" ELSE "RejectAlways"
       IN  /\ cache' = MapInsert(cache, r.canon, decision)
           /\ cacheBy' = MapInsert(cacheBy, r.canon, c)
           /\ IF r.outcome = "allow_always" THEN Goto(c, r, "w_write")
              ELSE Finish(c, r, send_error(r.id, PermissionDenied))
    /\ UNCHANGED <<cacheLock, bridge, handshake, lock, sender, loginState, initialized, out, files>>

\* handle_write_text_file: fs::write(&canonical_path, content)
Write(c, ok) ==
    /\ pc[c] = "w_write"
    /\ LET r == [req[c] EXCEPT !.wrote = TRUE]
       IN  IF ok
           THEN /\ files' = MapInsert(files, Components(r.canon), r.content)
                /\ Finish(c, r, send_result(r.id, [tag |-> "empty"]))
           ELSE /\ files' = files
                /\ Finish(c, r, send_error(r.id, internal_error("failed to write file")))
    /\ UNCHANGED <<cacheLock, bridge, handshake, lock, sender, loginState, initialized, out, cache, cacheBy>>

-----------------------------------------------------------------------------
(* The mutex of the permission cache at the grain of lock and unlock; Lookup *)
(* and Insert above take a whole critical section as one step                *)

\* shared.permission_cache.lock().await before the lookup
LookupLock(c) ==
    /\ pc[c] = "w_lookup"
    /\ cacheLock = Free
    /\ cacheLock' = c
    /\ pc' = [pc EXCEPT ![c] = "w_lookup_get"]
    /\ UNCHANGED <<bridge, handshake, lock, sender, loginState, initialized, req, out,
                   cache, cacheBy, files>>

LookupGet_KeepsGuard(c) ==
    /\ pc[c] = "w_lookup_get"
    /\ LET cached_decision == MapGet(cache, req[c].canon)
           r == [req[c] EXCEPT !.cacheAccess = TRUE, !.lookup = cached_decision]
       IN  IF cached_decision = "AllowAlways"
           THEN Goto(c, r, "w_write") /\ cacheLock' = Free
           ELSE IF cached_decision = "RejectAlways"
           THEN Finish(c, r, send_error(r.id, server_error("Permission denied")))
                /\ cacheLock' = Free
           ELSE Goto(c, [r EXCEPT !.agent = {"request_permission"}], "w_perm")
                /\ cacheLock' = cacheLock
    /\ UNCHANGED <<bridge, handshake, lock, sender, loginState, initialized, out, cache,
                   cacheBy, files>>

\* cache.get(&canonical_path_str).cloned() and the end of the block: the guard
\* is dropped before the match on cached_decision
LookupGet(c) ==
    /\ pc[c] = "w_lookup_get"
    /\ cacheLock' = Free
    /\ LET cached_decision == MapGet(cache, req[c].canon)
           r == [req[c] EXCEPT !.cacheAccess = TRUE, !.lookup = cached_decision]
       IN  IF cached_decision = "AllowAlways" THEN Goto(c, r, "w_write")
           ELSE IF cached_decision = "RejectAlways"
           THEN Finish(c, r, send_error(r.id, server_error("Permission denied")))
           ELSE Goto(c, [r EXCEPT !.agent = {"request_permission"}], "w_perm")
    /\ UNCHANGED <<bridge, handshake, lock, sender, loginState, initialized, out, cache,
                   cacheBy, files>>

\* shared.permission_cache.lock().await before the insert
InsertLock(c) ==
    /\ pc[c] = "w_insert"
    /\ cacheLock = Free
    /\ cacheLock' = c
    /\ pc' = [pc EXCEPT ![c] = "w_insert_put"]
    /\ UNCHANGED <<bridge, handshake, lock, sender, loginState, initialized, req, out,
                   cache, cacheBy, files>>

\* cache.insert(canonical_path_str, decision) and the end of the block
InsertPut(c) ==
    /\ pc[c] = "w_insert_put"
    /\ cacheLock' = Free
    /\ LET r == [req[c] EXCEPT !.inserted = TRUE]
           decision == IF r.outcome = "allow_always" THEN "AllowAlways" ELSE "RejectAlways"
       IN  /\ cache' = MapInsert(cache, r.canon, decision)
           /\ cacheBy' = MapInsert(cacheBy, r.canon, c)
           /\ IF r.outcome = "allow_always" THEN Goto(c, r, "w_write")
              ELSE Finish(c, r, send_error(r.id, PermissionDenied))
    /\ UNCHANGED <<bridge, handshake, lock, sender, loginState, initialized, out, files>>

\* how a login call can end once the CLI was resolved: a failed setup step, or
\* one of the results of the capture
LoginOutcomes == (LoginSetups \ {"ok"}) \cup {"url", "timeout", "eof"}

\* process_request, "auth/cli_login", with handle_auth_cli_login taken as one
\* step: CLI resolution, spawn in a PTY, capture of the URL
RecvAuthCliLogin(c, id, env, login) ==
    /\ pc[c] = "read"
    /\ LET command == resolve_claude_login_command(env)
           r == [IdleReq EXCEPT !.id = id, !.method = "auth/cli_login",
                               !.env = env, !.command = command,
                               !.spawned = command.ok /\ SpawnedBefore(
                                   IF login \in LoginSetups THEN login ELSE "ok")]
       IN  /\ SetupPossible(command, login)
           /\ CASE ~command.ok ->
                  Finish(c, r, send_error(id, server_error(UnableToLocate)))
             [] command.ok /\ login \in LoginSetups ->
                  Finish(c, r, send_error(id, internal_error(SetupError(login))))
             [] command.ok /\ login = "url" ->
                  Finish(c, r, send_result(id,
                      [tag |-> "login", status |-> "started", loginUrl |-> "https://login"]))
             [] command.ok /\ login = "timeout" ->
                  Finish(c, r, send_error(id,
                      internal_error("timed out waiting for Claude login URL")))
             [] command.ok /\ login = "eof" ->
                  Finish(c, r, send_error(id,
                      internal_error("login CLI exited before emitting a login URL")))
    /\ UNCHANGED <<cacheLock, bridge, handshake, lock, sender, loginState, initialized, out, cache, cacheBy, files>>

\* process_request, any other method name
RecvUnknown(c, id) ==
    /\ pc[c] = "read"
    /\ Finish(c, [IdleReq EXCEPT !.id = id, !.method = "unknown/method"],
              send_error(id, method_not_found))
    /\ UNCHANGED <<cacheLock, bridge, handshake, lock, sender, loginState, initialized, out, cache, cacheBy, files>>

\* one flag for the whole bridge: a successful initialize marks every connection
SendReply_SharedFlag(c, ok) ==
    /\ pc[c] = "reply"
    /\ IF ok
       THEN /\ pc' = [pc EXCEPT ![c] = "read"]
            /\ initialized' =
                   IF req[c].method = "initialize" /\ req[c].reply.kind = "result"
                   THEN [d \in Conns |-> pc[d] # "closed"]
                   ELSE initialized
       ELSE /\ pc' = [pc EXCEPT ![c] = "closed"]
            /\ initialized' = [initialized EXCEPT ![c] = FALSE]
    /\ req' = [req EXCEPT ![c] = IdleReq]
    /\ out' = [out EXCEPT ![c] = <<>>]
    /\ UNCHANGED <<cacheLock, bridge, handshake, lock, sender, loginState, cache, cacheBy, files>>

SendReply_ResetsFlag(c, ok) ==
    /\ pc[c] = "reply"
    /\ IF ok
       THEN /\ pc' = [pc EXCEPT ![c] = "read"]
            /\ initialized' = [initialized EXCEPT ![c] =
                   req[c].method = "initialize" /\ req[c].reply.kind = "result"]
       ELSE /\ pc' = [pc EXCEPT ![c] = "closed"]
            /\ initialized' = [initialized EXCEPT ![c] = FALSE]
    /\ req' = [req EXCEPT ![c] = IdleReq]
    /\ out' = [out EXCEPT ![c] = <<>>]
    /\ UNCHANGED <<cacheLock, bridge, handshake, lock, sender, loginState, cache, cacheBy, files>>

\* send_result_shared / send_error_shared write the reply frame; initialize
\* sets the flag after its result was sent; a failed send ends the connection
SendReply(c, ok) ==
    /\ pc[c] = "reply"
    /\ IF ok
       THEN /\ pc' = [pc EXCEPT ![c] = "read"]
            /\ initialized' = [initialized EXCEPT ![c] =
                   @ \/ (req[c].method = "initialize" /\ req[c].reply.kind = "result")]
       ELSE /\ pc' = [pc EXCEPT ![c] = "closed"]
            /\ initialized' = [initialized EXCEPT ![c] = FALSE]
    /\ req' = [req EXCEPT ![c] = IdleReq]
    /\ out' = [out EXCEPT ![c] = <<>>]
    /\ UNCHANGED <<cacheLock, bridge, handshake, lock, sender, loginState, cache, cacheBy, files>>

-----------------------------------------------------------------------------
(* auth/cli_login at the grain of its threads: the child in its PTY, the     *)
(* writer and reader threads, the capture future and the joins               *)

\* Text is a sequence of symbols; the two symbols "https" "://" in a row are
\* the substring "https://", which a read can split between chunks
\* what the child may print in its lifetime
LoginOutputs ==
    { <<>>,
      <<"x">>,
      <<"https", "://", "a">>,
      <<"x", "https", "://", "a", "b", " ", "x">> }

\* ch.is_whitespace() || ch == '"' || ch == '\'' || ch == BEL || ch == ESC
IsUrlEnd(ch) == ch \in {" ", "\n", "\t", "QUOTE", "APOSTROPHE", "BEL", "ESC"}

\* buffer.find("https://"): the first position of the substring, 0 when absent
FindHttps(buffer) ==
    LET hits == {i \in 1..(Len(buffer) - 1) :
                    buffer[i] = "https" /\ buffer[i + 1] = "://"}
    IN  IF hits = {} THEN 0 ELSE CHOOSE i \in hits : \A j \in hits : i <= j

\* the symbols of tail before its first terminator
RECURSIVE UntilUrlEnd(_)
UntilUrlEnd(tail) ==
    IF tail = <<>> \/ IsUrlEnd(Head(tail)) THEN <<>>
    ELSE <<Head(tail)>> \o UntilUrlEnd(Tail(tail))

\* extract_login_url: Some(url) or None
extract_login_url(buffer) ==
    LET start == FindHttps(buffer)
    IN  IF start = 0 THEN NoUrl
        ELSE UntilUrlEnd(SubSeq(buffer, start, Len(buffer)))

InLogin(c) == pc[c] \in {"l_capture", "l_join_writer", "l_join_reader"}

\* process_request, "auth/cli_login", and handle_auth_cli_login up to its
\* first await: CLI resolution, PTY, spawn, start of both threads
LoginStart(c, id, env, setup, output) ==
    /\ pc[c] = "read"
    /\ LET command == resolve_claude_login_command(env)
           r == [IdleReq EXCEPT !.id = id, !.method = "auth/cli_login",
                               !.env = env, !.command = command,
                               !.spawned = command.ok /\ SpawnedBefore(setup)]
       IN  /\ SetupPossible(command, setup)
           /\ IF ~command.ok
              THEN /\ Finish(c, r, send_error(id, server_error(UnableToLocate)))
                   /\ loginState' = [loginState EXCEPT ![c] = NoLogin]
              ELSE IF setup # "ok"
              THEN /\ Finish(c, r, send_error(id, internal_error(SetupError(setup))))
                   /\ loginState' = [loginState EXCEPT ![c] = NoLogin]
              ELSE /\ Goto(c, r, "l_capture")
                   /\ loginState' = [loginState EXCEPT ![c] =
                          [NoLogin EXCEPT !.child = "running", !.output = output,
                                          !.reader = "check", !.writer = "running",
                                          !.rx = TRUE]]
    /\ UNCHANGED <<cacheLock, bridge, handshake, lock, sender, initialized, out, cache, cacheBy, files>>

\* the child prints its next symbol
ChildPrints(c) ==
    /\ InLogin(c)
    /\ loginState[c].child = "running"
    /\ loginState[c].output # <<>>
    /\ loginState' = [loginState EXCEPT ![c].pty = Append(@, Head(loginState[c].output)),
                              ![c].output = Tail(@)]
    /\ UNCHANGED <<cacheLock, bridge, handshake, lock, sender, initialized, pc, req, out, cache, cacheBy, files>>

\* the child exits and the slave side of the PTY closes
ChildExits(c) ==
    /\ InLogin(c)
    /\ loginState[c].child = "running"
    /\ loginState' = [loginState EXCEPT ![c].child = "exited"]
    /\ UNCHANGED <<cacheLock, bridge, handshake, lock, sender, initialized, pc, req, out, cache, cacheBy, files>>

\* writer thread: while !writer_stop.load() { write "\r"; sleep }; it ends when
\* it sees the flag or when the write fails
WriterExit(c) ==
    /\ loginState[c].writer = "running"
    /\ loginState[c].stop \/ loginState[c].child = "exited"
    /\ loginState' = [loginState EXCEPT ![c].writer = "exited"]
    /\ UNCHANGED <<cacheLock, bridge, handshake, lock, sender, initialized, pc, req, out, cache, cacheBy, files>>

\* reader thread: while !reader_stop.load()
ReaderCheck(c) ==
    /\ loginState[c].reader = "check"
    /\ loginState' = [loginState EXCEPT ![c].reader = IF loginState[c].stop THEN "exited" ELSE "read"]
    /\ UNCHANGED <<cacheLock, bridge, handshake, lock, sender, initialized, pc, req, out, cache, cacheBy, files>>

\* reader thread: reader.read(&mut buffer) returns what the PTY holds, or
\* Ok(0) / Err once the child is gone; a chunk goes to the channel, and the
\* thread ends when the receiver was dropped
ReaderRead(c) ==
    /\ loginState[c].reader = "read"
    /\ \/ /\ loginState[c].pty # <<>>
          /\ loginState' = [loginState EXCEPT
                 ![c].pty = <<>>,
                 ![c].channel = IF loginState[c].rx THEN Append(@, loginState[c].pty) ELSE @,
                 ![c].reader = IF loginState[c].rx THEN "check" ELSE "exited"]
       \/ /\ loginState[c].pty = <<>>
          /\ loginState[c].child = "exited"
          /\ loginState' = [loginState EXCEPT ![c].reader = "exited"]
    /\ UNCHANGED <<cacheLock, bridge, handshake, lock, sender, initialized, pc, req, out, cache, cacheBy, files>>

CaptureRecv_KeepsReading(c) ==
    /\ pc[c] = "l_capture"
    /\ loginState[c].channel # <<>>
    /\ loginState' = [loginState EXCEPT
           ![c].collected = @ \o Head(loginState[c].channel),
           ![c].channel = Tail(@)]
    /\ UNCHANGED <<cacheLock, bridge, handshake, lock, sender, initialized, pc, req, out, cache, cacheBy, files>>

\* capture: rx.recv() yields a chunk; it is appended and the buffer scanned
CaptureRecv(c) ==
    /\ pc[c] = "l_capture"
    /\ loginState[c].channel # <<>>
    /\ LET collected == loginState[c].collected \o Head(loginState[c].channel)
           url == extract_login_url(collected)
       IN  IF url # NoUrl
           THEN /\ loginState' = [loginState EXCEPT ![c].collected = collected,
                                 ![c].channel = <<>>, ![c].rx = FALSE,
                                 ![c].stop = TRUE, ![c].result = "url",
                                 ![c].url = url]
                /\ pc' = [pc EXCEPT ![c] = "l_join_writer"]
           ELSE /\ loginState' = [loginState EXCEPT ![c].collected = collected,
                                 ![c].channel = Tail(@)]
                /\ pc' = pc
    /\ UNCHANGED <<cacheLock, bridge, handshake, lock, sender, initialized, req, out, cache, cacheBy, files>>

\* capture: rx.recv() yields None, the reader thread has dropped the sender
CaptureEof(c) ==
    /\ pc[c] = "l_capture"
    /\ loginState[c].channel = <<>>
    /\ loginState[c].reader = "exited"
    /\ loginState' = [loginState EXCEPT ![c].rx = FALSE, ![c].stop = TRUE, ![c].result = "eof"]
    /\ pc' = [pc EXCEPT ![c] = "l_join_writer"]
    /\ UNCHANGED <<cacheLock, bridge, handshake, lock, sender, initialized, req, out, cache, cacheBy, files>>

\* timeout(Duration::from_secs(30), capture) elapses; automation_stop is set next
CaptureTimeout(c) ==
    /\ pc[c] = "l_capture"
    /\ loginState' = [loginState EXCEPT ![c].channel = <<>>, ![c].rx = FALSE,
                              ![c].stop = TRUE, ![c].result = "timeout"]
    /\ pc' = [pc EXCEPT ![c] = "l_join_writer"]
    /\ UNCHANGED <<cacheLock, bridge, handshake, lock, sender, initialized, req, out, cache, cacheBy, files>>

\* writer_thread.join()
JoinWriter(c) ==
    /\ pc[c] = "l_join_writer"
    /\ loginState[c].writer = "exited"
    /\ pc' = [pc EXCEPT ![c] = "l_join_reader"]
    /\ UNCHANGED <<cacheLock, bridge, handshake, lock, sender, loginState, initialized, req, out, cache, cacheBy, files>>

\* reader_thread.join(), then the result is mapped, the child handle dropped
\* and process_request builds the reply
JoinReader(c) ==
    /\ pc[c] = "l_join_reader"
    /\ loginState[c].reader = "exited"
    /\ LET id == req[c].id
       IN  CASE loginState[c].result = "url" ->
                  Finish(c, req[c], send_result(id,
                      [tag |-> "login", status |-> "started", loginUrl |-> loginState[c].url]))
             [] loginState[c].result = "timeout" ->
                  Finish(c, req[c], send_error(id,
                      internal_error("timed out waiting for Claude login URL")))
             [] loginState[c].result = "eof" ->
                  Finish(c, req[c], send_error(id,
                      internal_error("login CLI exited before emitting a login URL")))
    /\ loginState' = [loginState EXCEPT ![c] =
           [NoLogin EXCEPT !.child = loginState[c].child, !.result = loginState[c].result,
                           !.collected = loginState[c].collected]]
    /\ UNCHANGED <<cacheLock, bridge, handshake, lock, sender, initialized, out, cache, cacheBy, files>>

-----------------------------------------------------------------------------
(* The stream mutex, at the grain of lock, frame, unlock: the read loop, the  *)
(* reply and pong writes of the connection task, and notification senders    *)
(* that the agent runs concurrently and may leave running when prompt returns *)

Acquire_NoWait(c, w) == lock' = [lock EXCEPT ![c] = w]

\* stream.lock().await: task w gets the guard when no task holds it
Acquire(c, w) ==
    /\ lock[c] = Free
    /\ lock' = [lock EXCEPT ![c] = w]

\* the guard goes out of scope
Release(c) == lock' = [lock EXCEPT ![c] = Free]

\* accept of a client that passes the handshake; the slot is free once no
\* task of its last connection holds the stream
StreamAccept(c) ==
    /\ bridge.loop = "running"
    /\ pc[c] = "closed"
    /\ lock[c] = Free
    /\ \A k \in Senders : sender[c][k] = "idle"
    /\ LET response == accept_client(GoodOrigin, GoodProtocol)
       IN  handshake' = [handshake EXCEPT ![c] =
               [origin |-> GoodOrigin, protocol |-> GoodProtocol,
                status |-> response.status, echo |-> response.protocol]]
    /\ pc' = [pc EXCEPT ![c] = "r_lock"]
    /\ initialized' = [initialized EXCEPT ![c] = FALSE]
    /\ UNCHANGED <<cacheLock, bridge, lock, sender, loginState, req, out, cache, cacheBy, files>>

\* handle_websocket: let mut stream_guard = stream.lock().await
ReadLock(c) ==
    /\ pc[c] = "r_lock"
    /\ Acquire(c, Dispatcher)
    /\ pc' = [pc EXCEPT ![c] = "r_next"]
    /\ UNCHANGED <<cacheLock, bridge, handshake, sender, loginState, initialized, req, out, cache, cacheBy, files>>

\* stream_guard.next().await yields a message and the guard is dropped
NextFrame(c) ==
    /\ pc[c] = "r_next"
    /\ Release(c)
    /\ pc' = [pc EXCEPT ![c] = "read"]
    /\ UNCHANGED <<cacheLock, bridge, handshake, sender, loginState, initialized, req, out, cache, cacheBy, files>>

\* the message is a Ping
RecvPing(c) ==
    /\ pc[c] = "read"
    /\ pc' = [pc EXCEPT ![c] = "pong"]
    /\ UNCHANGED <<cacheLock, bridge, handshake, lock, sender, loginState, initialized, req, out, cache, cacheBy, files>>

\* the message is a Pong or a raw frame: nothing to do
RecvPong(c) ==
    /\ pc[c] = "read"
    /\ pc' = [pc EXCEPT ![c] = "r_lock"]
    /\ UNCHANGED <<cacheLock, bridge, handshake, lock, sender, loginState, initialized, req, out, cache, cacheBy, files>>

\* Ping arm: let mut stream_guard = stream.lock().await
PongLock(c) ==
    /\ pc[c] = "pong"
    /\ Acquire(c, Dispatcher)
    /\ pc' = [pc EXCEPT ![c] = "pong_send"]
    /\ UNCHANGED <<cacheLock, bridge, handshake, sender, loginState, initialized, req, out, cache, cacheBy, files>>

\* Ping arm: stream_guard.send(Message::Pong(payload)).await?
PongSend(c, ok) ==
    /\ pc[c] = "pong_send"
    /\ Release(c)
    /\ pc' = [pc EXCEPT ![c] = IF ok THEN "r_lock" ELSE "closed"]
    /\ initialized' = [initialized EXCEPT ![c] = IF ok THEN @ ELSE FALSE]
    /\ UNCHANGED <<cacheLock, bridge, handshake, sender, loginState, req, out, cache, cacheBy, files>>

\* the agent calls send_notification on sender task k without awaiting the
\* calls it made before
NotifyCall(c, k) ==
    /\ pc[c] = "prompt"
    /\ sender[c][k] = "idle"
    /\ Len(req[c].handed) < MaxUpdates
    /\ sender' = [sender EXCEPT ![c][k] = "lock"]
    /\ req' = [req EXCEPT ![c].handed = Append(@, k)]
    /\ UNCHANGED <<cacheLock, bridge, handshake, lock, loginState, initialized, pc, out, cache, cacheBy, files>>

\* send_notification: let mut guard = stream.lock().await
NotifyLock(c, k) ==
    /\ sender[c][k] = "lock"
    /\ Acquire(c, k)
    /\ sender' = [sender EXCEPT ![c][k] = "send"]
    /\ UNCHANGED <<cacheLock, bridge, handshake, loginState, initialized, pc, req, out, cache, cacheBy, files>>

\* send_notification: send_json(&mut guard, payload).await, then the guard is
\* dropped and the outcome goes back to the agent
NotifySend(c, k, ok) ==
    /\ sender[c][k] = "send"
    /\ Release(c)
    /\ sender' = [sender EXCEPT ![c][k] = "idle"]
    /\ out' = [out EXCEPT ![c] =
                  IF ok THEN SinkSend(@, Notification("session/update", k)) ELSE @]
    /\ UNCHANGED <<cacheLock, bridge, handshake, loginState, initialized, pc, req, cache, cacheBy, files>>

\* agent.prompt returns, whether or not its senders have finished
StreamPromptReturns(c, agentOk) ==
    /\ pc[c] = "prompt"
    /\ IF agentOk
       THEN Finish(c, req[c], send_result(req[c].id,
                [tag |-> "prompt", stopReason |-> "end_turn"]))
       ELSE Finish(c, req[c], send_error(req[c].id, into_rpc_error))
    /\ UNCHANGED <<cacheLock, bridge, handshake, lock, sender, loginState, initialized, out, cache, cacheBy, files>>

\* send_result_shared / send_error_shared: let mut guard = stream.lock().await
ReplyLock(c) ==
    /\ pc[c] = "reply"
    /\ Acquire(c, Dispatcher)
    /\ pc' = [pc EXCEPT ![c] = "reply_send"]
    /\ UNCHANGED <<cacheLock, bridge, handshake, sender, loginState, initialized, req, out, cache, cacheBy, files>>

\* send_result / send_error under the guard; then back to the top of the loop
ReplySend(c, ok) ==
    /\ pc[c] = "reply_send"
    /\ Release(c)
    /\ IF ok
       THEN /\ pc' = [pc EXCEPT ![c] = "r_lock"]
            /\ initialized' = [initialized EXCEPT ![c] =
                   @ \/ (req[c].method = "initialize" /\ req[c].reply.kind = "result")]
       ELSE /\ pc' = [pc EXCEPT ![c] = "closed"]
            /\ initialized' = [initialized EXCEPT ![c] = FALSE]
    /\ req' = [req EXCEPT ![c] = IdleReq]
    /\ out' = [out EXCEPT ![c] = <<>>]
    /\ UNCHANGED <<cacheLock, bridge, handshake, sender, loginState, cache, cacheBy, files>>

-----------------------------------------------------------------------------
(* The standalone binary (main.rs) *)

\* The binary is a second server: its connection tasks are described with the
\* same variables, handshake for the upgrade, pc for the position of the task,
\* req for the request last taken up and out for the frames written to the
\* socket since the upgrade.

\* Config::default: the project roots are the working directory
project_roots == { <<"">> \o Cwd }

\* the Sec-WebSocket-Protocol headers and the paths sent to the binary
MainProtocols ==
    Protocols \cup
    { ProtocolText(TokenLower \o <<",", " ", "x">>),               \* "acp.jsonrpc.v1, x"
      ProtocolText(<<"x", ",", " ">> \o TokenLower \o <<" ">>),    \* "x, acp.jsonrpc.v1 "
      ProtocolText(<<"x", ",", " ", "y">>) }                       \* "x, y"

MainPaths ==
    { <<"", "work", "a.txt">>,                 \* a file of the project
      <<"a.txt">>,                             \* the same file, relative
      <<"", "etc", "passwd">>,                 \* outside
      <<"", "work", "..", "etc", "passwd">>,   \* begins like the root, leads outside
      <<"", "work", "link", "passwd">>,        \* through the symlink /work/link -> /etc
      <<"", "work", "missing">> }              \* inside, no such file

\* frames the binary may write before its task stops reading
MaxFrames == 2

\* the callback given to accept_hdr_async, the origin test:
\* origin.to_str().unwrap_or("") is a member of allowed_origins
main_origin_allowed(origin) ==
    /\ origin.present
    /\ (IF origin.text THEN origin.value ELSE "") \in allowed_origins

main_is_valid_IgnoresCase(protocol) ==
    validate_subprotocol(protocol, expected_subprotocol)

\* the callback, is_valid: some trimmed piece of the header is "acp.jsonrpc.v1"
main_is_valid(protocol) ==
    /\ protocol.present
    /\ protocol.text
    /\ LET candidates == Split(protocol.value, ",")
       IN  \E i \in 1..Len(candidates) : Trim(candidates[i]) = TokenLower

\* the callback: Err(403) without an allowed origin, otherwise Ok(res), with
\* the subprotocol header when is_valid
main_callback(origin, protocol) ==
    IF main_origin_allowed(origin)
    THEN HandshakeResponse(101, IF main_is_valid(protocol) THEN TokenLower ELSE <<>>)
    ELSE HandshakeResponse(403, <<>>)

\* is_path_within_project_roots: Path::starts_with, component by component
\* and without resolving anything
is_path_within_project_roots(path, roots) ==
    \E root \in roots :
        /\ IsAbsolute(path) = IsAbsolute(root)
        /\ LET p == Components(path)
               r == Components(root)
           IN  Len(p) >= Len(r) /\ SubSeq(p, 1, Len(r)) = r

\* a text frame as handle_connection sees it
MainRequest(json, method, hasId, caps, hasPath, path) ==
    [json |-> json, method |-> method, hasId |-> hasId, caps |-> caps,
     hasPath |-> hasPath, path |-> path]

MainRequests ==
    { MainRequest(FALSE, "", FALSE, FALSE, FALSE, <<>>),             \* not JSON
      MainRequest(TRUE, "", TRUE, FALSE, FALSE, <<>>),               \* no method
      MainRequest(TRUE, "initialize", FALSE, TRUE, FALSE, <<>>),     \* no id
      MainRequest(TRUE, "initialize", TRUE, TRUE, FALSE, <<>>),
      MainRequest(TRUE, "initialize", TRUE, FALSE, FALSE, <<>>),
      MainRequest(TRUE, "fs/read_text_file", TRUE, FALSE, FALSE, <<>>),
      MainRequest(TRUE, "session/new", TRUE, FALSE, FALSE, <<>>) }
    \cup { MainRequest(TRUE, "fs/read_text_file", TRUE, FALSE, TRUE, p) : p \in MainPaths }

\* frames of the binary: responses and the policy close
MainResult(tag, content) == [kind |-> "result", tag |-> tag, content |-> content]
MainError(code, message, details) ==
    [kind |-> "error", code |-> code, message |-> message, details |-> details]
MainCloseFrame(code) == [kind |-> "close", code |-> code]

\* CloseCode::Policy
Policy == 1008

\* handle_jsonrpc_request: [some, frame, read]; some is FALSE for None, read
\* tells whether fs::read_to_string was called
NoResponse == [some |-> FALSE, frame |-> MainCloseFrame(0), read |-> FALSE]
Response(frame, read) == [some |-> TRUE, frame |-> frame, read |-> read]

handle_jsonrpc_request(fs, request) ==
    IF request.method = "" \/ ~request.hasId THEN NoResponse
    ELSE IF request.method = "initialize"
    THEN IF request.caps
         THEN Response(MainResult("initialize", <<>>), FALSE)
         ELSE Response(MainError(-32602, "Missing required fs capabilities", FALSE), FALSE)
    ELSE IF request.method = "fs/read_text_file"
    THEN IF ~request.hasPath THEN NoResponse
         ELSE IF is_path_within_project_roots(request.path, project_roots)
         THEN LET file == Canonicalize(fs, ResolvedPath(request.path))
              IN  IF file \in DOMAIN fs /\ ~Contains(fs[file], "BAD")
                  THEN Response(MainResult("content", fs[file]), TRUE)
                  ELSE Response(MainError(-32000, "Failed to read file", TRUE), TRUE)
         ELSE Response(MainError(-32000, "Access denied", TRUE), FALSE)
    ELSE NoResponse

\* run_server: a connection is accepted and its task runs the upgrade; the
\* task goes on to handle_connection, to the policy close, or ends
MainAccept(c, origin, protocol) ==
    /\ pc[c] = "closed"
    /\ LET response == main_callback(origin, protocol)
       IN  /\ handshake' = [handshake EXCEPT ![c] =
                   [origin |-> origin, protocol |-> protocol,
                    status |-> response.status, echo |-> response.protocol]]
           /\ pc' = [pc EXCEPT ![c] =
                   IF response.status # 101 THEN "closed"
                   ELSE IF main_is_valid(protocol) THEN "m_read"
                   ELSE "m_close"]
    /\ req' = [req EXCEPT ![c] = IdleReq]
    /\ out' = [out EXCEPT ![c] = <<>>]
    /\ UNCHANGED <<cacheLock, bridge, initialized, cache, cacheBy, files, lock, sender, loginState>>

\* run_server: the Close frame when valid_subproto is false; the task ends
MainPolicyClose(c) ==
    /\ pc[c] = "m_close"
    /\ out' = [out EXCEPT ![c] = SinkSend(@, MainCloseFrame(Policy))]
    /\ pc' = [pc EXCEPT ![c] = "closed"]
    /\ UNCHANGED <<cacheLock, bridge, initialized, req, cache, cacheBy, files, handshake, lock,
                   sender, loginState>>

\* handle_connection: a text frame; the response, if any, is sent, and a
\* failed send ends the loop
MainRecvText(c, request, ok) ==
    /\ pc[c] = "m_read"
    /\ Len(out[c]) < MaxFrames
    /\ IF ~request.json
       THEN /\ req' = [req EXCEPT ![c] = [IdleReq EXCEPT !.json = FALSE]]
            /\ UNCHANGED <<pc, out>>
       ELSE LET response == handle_jsonrpc_request(files, request)
            IN  /\ req' = [req EXCEPT ![c] =
                        [IdleReq EXCEPT !.method = request.method,
                                        !.id = IF request.hasId THEN "req-1" ELSE "null",
                                        !.path = request.path,
                                        !.fsAccess = response.read]]
                /\ IF ~response.some THEN UNCHANGED <<pc, out>>
                   ELSE IF ok
                   THEN /\ out' = [out EXCEPT ![c] = SinkSend(@, response.frame)]
                        /\ UNCHANGED pc
                   ELSE /\ pc' = [pc EXCEPT ![c] = "closed"]
                        /\ UNCHANGED out
    /\ UNCHANGED <<cacheLock, bridge, initialized, cache, cacheBy, files, handshake, lock, sender,
                   loginState>>

\* handle_connection: a Close frame, a read error or the end of the stream
MainClose(c) ==
    /\ pc[c] = "m_read"
    /\ pc' = [pc EXCEPT ![c] = "closed"]
    /\ UNCHANGED <<cacheLock, bridge, initialized, req, out, cache, cacheBy, files, handshake, lock,
                   sender, loginState>>

-----------------------------------------------------------------------------
(* Next-state relations *)

\* steps a handler takes after its request was read
Continue(c) ==
    \/ Lookup(c)
    \/ \E outcome \in PermissionOutcomes : PermissionReturns(c, outcome)
    \/ Insert(c)
    \/ \E ok \in BOOLEAN : Write(c, ok)
    \/ \E ok \in BOOLEAN : SendReply(c, ok)

\* One client at a time on connection slot 1, sending any frame
Next ==
    \E c \in Clients :
        \/ \E origin \in Origins, protocol \in Protocols : Accept(c, origin, protocol)
        \/ CloseConn(c)
        \/ RecvMalformed(c)
        \/ \E id \in Ids : RecvNoMethod(c, id)
        \/ \E id \in Ids, paramsOk \in BOOLEAN, agentOk \in BOOLEAN, meta \in AgentMetas :
               RecvInitialize(c, id, paramsOk, agentOk, meta)
        \/ \E id \in Ids, paramsOk \in BOOLEAN, agentOk \in BOOLEAN :
               RecvSessionNew(c, id, paramsOk, agentOk)
        \/ \E id \in Ids : RecvPrompt(c, id)
        \/ AgentNotify(c)
        \/ \E ok \in BOOLEAN : send_notification(c, ok)
        \/ \E agentOk \in BOOLEAN : PromptReturns(c, agentOk)
        \/ \E id \in Ids, hasPath \in BOOLEAN, path \in ClientPaths,
              off \in LineOffsets, lim \in LineLimits :
               RecvRead(c, id, hasPath, path, off, lim)
        \/ \E id \in Ids, missing \in {"none", "path"}, path \in ClientPaths,
              content \in Contents, mkdirOk \in BOOLEAN :
               RecvWrite(c, id, missing, path, content, mkdirOk)
        \/ \E id \in Ids, env \in LoginEnvs, login \in LoginOutcomes :
               RecvAuthCliLogin(c, id, env, login)
        \/ \E id \in Ids : RecvUnknown(c, id)
        \/ Continue(c)

Spec == Init /\ [][Next]_vars

\* NumConns connections of one bridge, open at the same time and sharing the
\* permission cache and the file system; their clients initialize and write
NextShared ==
    \E c \in Conns :
        \/ Accept(c, GoodOrigin, GoodProtocol)
        \/ CloseConn(c)
        \/ \E id \in SharedIds, agentOk \in BOOLEAN :
               RecvInitialize(c, id, TRUE, agentOk, NoMeta)
        \/ \E id \in SharedIds, path \in SharedPaths, content \in Contents,
              mkdirOk \in BOOLEAN :
               RecvWrite(c, id, "none", path, content, mkdirOk)
        \/ Continue(c)

SpecShared == Init /\ [][NextShared]_vars

\* One connection whose tasks contend for the stream mutex
NextStream ==
    \E c \in Clients :
        \/ StreamAccept(c)
        \/ ReadLock(c)
        \/ NextFrame(c)
        \/ CloseConn(c)
        \/ RecvMalformed(c)
        \/ \E id \in SharedIds : RecvInitialize(c, id, TRUE, TRUE, NoMeta)
        \/ \E id \in SharedIds : RecvPrompt(c, id)
        \/ RecvPing(c)
        \/ RecvPong(c)
        \/ PongLock(c)
        \/ \E ok \in BOOLEAN : PongSend(c, ok)
        \/ \E k \in Senders : NotifyCall(c, k)
        \/ \E k \in Senders : NotifyLock(c, k)
        \/ \E k \in Senders, ok \in BOOLEAN : NotifySend(c, k, ok)
        \/ \E agentOk \in BOOLEAN : StreamPromptReturns(c, agentOk)
        \/ ReplyLock(c)
        \/ \E ok \in BOOLEAN : ReplySend(c, ok)

SpecStream == Init /\ [][NextStream]_vars

\* One connection whose client logs in through the CLI
NextLogin ==
    \E c \in Clients :
        \/ Accept(c, GoodOrigin, GoodProtocol)
        \/ CloseConn(c)
        \/ \E id \in SharedIds : RecvInitialize(c, id, TRUE, TRUE, NoMeta)
        \/ \E id \in SharedIds, env \in LoginEnvs, setup \in LoginSetups,
              output \in LoginOutputs :
               LoginStart(c, id, env, setup, output)
        \/ ChildPrints(c)
        \/ ChildExits(c)
        \/ WriterExit(c)
        \/ ReaderCheck(c)
        \/ ReaderRead(c)
        \/ CaptureRecv(c)
        \/ CaptureEof(c)
        \/ CaptureTimeout(c)
        \/ JoinWriter(c)
        \/ JoinReader(c)
        \/ \E ok \in BOOLEAN : SendReply(c, ok)

SpecLogin == Init /\ [][NextLogin]_vars

\* One connection whose client logs in, in every environment
NextResolve ==
    \E c \in Clients :
        \/ Accept(c, GoodOrigin, GoodProtocol)
        \/ CloseConn(c)
        \/ \E id \in SharedIds : RecvInitialize(c, id, TRUE, TRUE, NoMeta)
        \/ \E id \in SharedIds, env \in Envs, login \in LoginOutcomes :
               RecvAuthCliLogin(c, id, env, login)
        \/ \E ok \in BOOLEAN : SendReply(c, ok)

SpecResolve == Init /\ [][NextResolve]_vars

\* One connection whose client writes a text file and reads it back, whole
\* or by lines
NextReader ==
    \E c \in Clients :
        \/ Accept(c, GoodOrigin, GoodProtocol)
        \/ CloseConn(c)
        \/ \E id \in SharedIds : RecvInitialize(c, id, TRUE, TRUE, NoMeta)
        \/ \E id \in SharedIds, path \in ReaderPaths, content \in ReaderTexts :
               RecvWrite(c, id, "none", path, content, TRUE)
        \/ Lookup(c)
        \/ \E outcome \in {"allow_once", "reject_once"} : PermissionReturns(c, outcome)
        \/ \E ok \in BOOLEAN : Write(c, ok)
        \/ \E id \in SharedIds, path \in ReaderPaths, off \in ReaderOffsets,
              lim \in ReaderLimits :
               RecvRead(c, id, TRUE, path, off, lim)
        \/ \E ok \in BOOLEAN : SendReply(c, ok)

SpecReader == Init /\ [][NextReader]_vars

\* Two connections whose clients write the same files under different names
\* of them: relative, with "./", absolute, through ".."
Writers == {1, 2}
KeyPaths ==
    { <<"a.txt">>,
      <<".", "a.txt">>,
      <<"", "work", "a.txt">>,
      <<"..", "work", "a.txt">> }

NextKeys ==
    \E c \in Writers :
        \/ Accept(c, GoodOrigin, GoodProtocol)
        \/ CloseConn(c)
        \/ \E id \in SharedIds : RecvInitialize(c, id, TRUE, TRUE, NoMeta)
        \/ \E id \in SharedIds, path \in KeyPaths, content \in Contents :
               RecvWrite(c, id, "none", path, content, TRUE)
        \/ Lookup(c)
        \/ \E outcome \in {"allow_once", "allow_always", "reject_always"} :
               PermissionReturns(c, outcome)
        \/ Insert(c)
        \/ \E ok \in BOOLEAN : Write(c, ok)
        \/ \E ok \in BOOLEAN : SendReply(c, ok)

SpecKeys == Init /\ [][NextKeys]_vars

\* Two connections writing one file, with the cache mutex at the grain of
\* lock and unlock
NextCache ==
    \E c \in Writers :
        \/ Accept(c, GoodOrigin, GoodProtocol)
        \/ CloseConn(c)
        \/ \E id \in SharedIds : RecvInitialize(c, id, TRUE, TRUE, NoMeta)
        \/ \E id \in SharedIds, path \in SharedPaths, content \in Contents :
               RecvWrite(c, id, "none", path, content, TRUE)
        \/ LookupLock(c)
        \/ LookupGet(c)
        \/ \E outcome \in PermissionOutcomes : PermissionReturns(c, outcome)
        \/ InsertLock(c)
        \/ InsertPut(c)
        \/ \E ok \in BOOLEAN : Write(c, ok)
        \/ \E ok \in BOOLEAN : SendReply(c, ok)

SpecCache == Init /\ [][NextCache]_vars

\* The connection tasks are tasks of the runtime and the tokio mutex queues
\* its waiters in order: a task inside a critical section leaves it, and a
\* task waiting for the mutex gets it. The agent and fs::write may take
\* forever.
FairCache ==
    \A c \in Writers :
        /\ WF_vars(LookupGet(c))
        /\ WF_vars(InsertPut(c))
        /\ SF_vars(LookupLock(c))
        /\ SF_vars(InsertLock(c))

SpecCacheFair == SpecCache /\ FairCache

\* The bridge from serve() to shutdown and after it, with two connections
\* whose clients initialize and write one file
NextServed ==
    \/ AcceptLoopShutdown
    \/ Shutdown
    \/ ShutdownJoined
    \/ \E c \in Writers :
           \/ Accept(c, GoodOrigin, GoodProtocol)
           \/ CloseConn(c)
           \/ \E id \in SharedIds : RecvInitialize(c, id, TRUE, TRUE, NoMeta)
           \/ \E id \in SharedIds, content \in Contents :
                  RecvWrite(c, id, "none", <<"a.txt">>, content, TRUE)
           \/ Lookup(c)
           \/ \E outcome \in {"allow_once", "allow_always", "reject_always"} :
                  PermissionReturns(c, outcome)
           \/ Insert(c)
           \/ \E ok \in BOOLEAN : Write(c, ok)
           \/ \E ok \in BOOLEAN : SendReply(c, ok)

SpecServed == Init /\ [][NextServed]_vars

\* The bridge from serve() to shutdown: the accept loop, NumConns connections
\* with requests in progress, and the holder of the handle
NextBridge ==
    \/ AcceptError
    \/ AcceptLoopShutdown
    \/ Shutdown
    \/ ShutdownJoined
    \/ \E c \in Conns :
           \/ Accept(c, GoodOrigin, GoodProtocol)
           \/ CloseConn(c)
           \/ \E id \in SharedIds : RecvInitialize(c, id, TRUE, TRUE, NoMeta)
           \/ \E id \in SharedIds : RecvPrompt(c, id)
           \/ \E agentOk \in BOOLEAN : PromptReturns(c, agentOk)
           \/ \E ok \in BOOLEAN : SendReply(c, ok)

SpecBridge == Init /\ [][NextBridge]_vars

\* The accept loop and the shutdown future are tasks of the runtime: the
\* select takes a branch that stays ready, and the await of the loop task
\* returns once the task has ended. Clients and the agent are not obliged to
\* do anything.
FairBridge == WF_vars(AcceptLoopShutdown) /\ WF_vars(ShutdownJoined)

SpecBridgeFair == SpecBridge /\ FairBridge

\* The writer and reader are OS threads and the handler is a task of the
\* runtime: each takes its next step when it has one, and the 30 second timer
\* fires unless the capture ends first. The child is another program: nothing
\* makes it print or exit.
FairLogin ==
    \A c \in Clients :
        /\ WF_vars(WriterExit(c))
        /\ WF_vars(ReaderCheck(c))
        /\ WF_vars(ReaderRead(c))
        /\ WF_vars(CaptureRecv(c))
        /\ WF_vars(CaptureEof(c))
        /\ WF_vars(CaptureTimeout(c))
        /\ WF_vars(JoinWriter(c))
        /\ WF_vars(JoinReader(c))

SpecLoginFair == SpecLogin /\ FairLogin

\* The standalone binary started in a project directory that holds a.txt
InitMain ==
    /\ initialized = [c \in Conns |-> FALSE]
    /\ pc = [c \in Conns |-> "closed"]
    /\ req = [c \in Conns |-> IdleReq]
    /\ out = [c \in Conns |-> <<>>]
    /\ cache = <<>>
    /\ cacheBy = <<>>
    /\ files = [p \in { <<"etc", "passwd">>, <<"work", "a.txt">> } |->
                   IF p = <<"etc", "passwd">> THEN <<"r">> ELSE <<"a">>]
    /\ handshake = [c \in Conns |-> NoHandshake]
    /\ lock = [c \in Conns |-> Free]
    /\ sender = [c \in Conns |-> [k \in Senders |-> "idle"]]
    /\ loginState = [c \in Conns |-> NoLogin]
    /\ bridge = Serving
    /\ cacheLock = Free

NextMain ==
    \E c \in Clients :
        \/ \E origin \in Origins, protocol \in MainProtocols : MainAccept(c, origin, protocol)
        \/ MainPolicyClose(c)
        \/ \E request \in MainRequests, ok \in BOOLEAN : MainRecvText(c, request, ok)
        \/ MainClose(c)

SpecMain == InitMain /\ [][NextMain]_vars

\* The connection task is a task of the runtime: after the upgrade it runs on
\* to its send. Clients are not obliged to do anything.
FairMain == \A c \in Clients : WF_vars(MainPolicyClose(c))

SpecMainFair == SpecMain /\ FairMain

-----------------------------------------------------------------------------
(* Properties *)

Replied(c) == pc[c] = "reply"

IsWrite(c) == req[c].method = "fs/write_text_file"

Asked(c) == "request_permission" \in req[c].agent

\* the canonical form of a client path as the sandbox sees it: the resolved
\* path with symlinks and ".." removed; a file still to be created by a write
\* sits in its canonical parent directory
RealPath(fs, path, for_write) ==
    LET resolved == ResolvedPath(path)
    IN  IF Exists(fs, resolved) THEN Canonicalize(fs, resolved)
        ELSE IF for_write /\ resolved # <<>> /\ FileName(resolved) # "?"
                /\ Canonicalize(fs, Parent(resolved)) # NoPath
        THEN Append(Canonicalize(fs, Parent(resolved)), FileName(resolved))
        ELSE NoPath

\* the path begins with a forbidden prefix before or after canonicalization
ForbiddenPath(fs, path, for_write) ==
    \/ StartsWithForbidden(path)
    \/ LET real == RealPath(fs, path, for_write)
       IN  real # NoPath /\ StartsWithForbidden(PathString(real))

\* C1: on a connection that is not initialized, every request with a method
\* other than initialize is answered with error -32601 and its processing
\* calls no agent method, touches neither the file system nor the permission
\* cache and spawns no login CLI.
C1_PreInitializeGate ==
    \A c \in Conns :
        (Replied(c) /\ ~initialized[c] /\ req[c].json
            /\ req[c].method \notin {"", "initialize"})
        => /\ req[c].reply = send_error(req[c].id, method_not_found)
           /\ req[c].agent = {}
           /\ ~req[c].fsAccess
           /\ ~req[c].cacheAccess
           /\ ~req[c].spawned

\* C2: a write whose cache lookup returned RejectAlways is answered with
\* error -32000 "Permission denied" without a request_permission call and
\* without a file write.
C2_CachedRejectDenies ==
    \A c \in Conns :
        req[c].lookup = "RejectAlways"
        => /\ Replied(c)
           /\ req[c].reply = send_error(req[c].id, RpcError(-32000, "Permission denied", ""))
           /\ ~Asked(c)
           /\ ~req[c].wrote

C2_Witness ==
    \E c \in Conns :
        /\ Replied(c) /\ IsWrite(c)
        /\ req[c].lookup = "RejectAlways"
        /\ req[c].reply.error.code = -32000

\* C3: a write whose cache lookup returned AllowAlways calls no
\* request_permission and goes on to write the file; a permission request is
\* only ever made by a write whose lookup found no entry, so once a path has an
\* entry later writes to it ask nothing.
C3_CachedAllowWrites ==
    \A c \in Conns :
        /\ req[c].lookup = "AllowAlways"
           => /\ ~Asked(c)
              /\ req[c].outcome = "unset"
              /\ pc[c] \in {"w_write", "reply"}
              /\ Replied(c) => req[c].wrote
        /\ Asked(c) => req[c].lookup = "None"

C3_Witness ==
    \E c \in Conns :
        /\ Replied(c) /\ IsWrite(c)
        /\ req[c].lookup = "AllowAlways"
        /\ req[c].wrote
        /\ req[c].reply = send_result(req[c].id, [tag |-> "empty"])
        /\ Components(req[c].canon) \in DOMAIN files

\* C4: a read or write whose path begins with a forbidden prefix, before or
\* after canonicalization, is answered with the error "path outside project
\* root"; it asks no permission, makes no cache access or entry, writes no
\* file and returns no content.
C4_SandboxRejects ==
    \A c \in Conns :
        (/\ req[c].method \in {"fs/read_text_file", "fs/write_text_file"}
         /\ req[c].path # <<>>
         /\ ForbiddenPath(files, req[c].path, IsWrite(c)))
        => /\ Replied(c)
           /\ req[c].reply = send_error(req[c].id,
                  RpcError(-32603, "Internal error", "path outside project root"))
           /\ req[c].agent = {}
           /\ ~req[c].cacheAccess
           /\ ~req[c].inserted
           /\ ~req[c].wrote

C4_Witness ==
    \E c \in Conns :
        /\ Replied(c) /\ IsWrite(c)
        /\ ~StartsWithForbidden(req[c].path)
        /\ ForbiddenPath(files, req[c].path, TRUE)
        /\ req[c].reply.error.data = "path outside project root"

\* C5: fs::write is called only after the cache lookup returned AllowAlways or
\* the agent answered this request with Selected allow_once or allow_always
\* (the request always before the write); after reject_once, reject_always, an
\* unknown option or Cancelled there is no write and the reply is an error
\* -32000, after a failed agent call no write and the internal error
\* "permission request failed".
C5_WriteOnlyWhenAllowed ==
    \A c \in Conns :
        /\ (req[c].wrote \/ pc[c] = "w_write")
           => \/ req[c].lookup = "AllowAlways"
              \/ /\ req[c].lookup = "None"
                 /\ Asked(c)
                 /\ req[c].outcome \in {"allow_once", "allow_always"}
        /\ req[c].outcome \in {"reject_once", "reject_always", "other_option", "Cancelled"}
           => /\ ~req[c].wrote
              /\ pc[c] \in {"w_insert", "reply"}
              /\ Replied(c) => /\ req[c].reply.kind = "error"
                               /\ req[c].reply.error.code = -32000
        /\ req[c].outcome = "Failed"
           => /\ ~req[c].wrote
              /\ Replied(c)
              /\ req[c].reply = send_error(req[c].id,
                     RpcError(-32603, "Internal error", "permission request failed"))

C5_Witness ==
    \E c \in Conns :
        /\ Replied(c)
        /\ req[c].outcome = "allow_once"
        /\ req[c].wrote
        /\ req[c].reply.kind = "result"

\* C6: a permission-cache entry, once written, is never overwritten with a
\* different decision and never removed.
C6_CacheAppendOnly ==
    [][\A k \in DOMAIN cache : k \in DOMAIN cache' /\ cache'[k] = cache[k]]_vars

\* C7: a write answered with an internal error (-32603) leaves the permission
\* cache as it was: the request inserted no entry.
C7_InternalErrorKeepsCache ==
    \A c \in Conns :
        (Replied(c) /\ IsWrite(c) /\ req[c].reply.kind = "error"
            /\ req[c].reply.error.code = -32603)
        => ~req[c].inserted

\* C8: a write resolved by allow_once, reject_once, an unknown option or
\* Cancelled leaves no cache entry for its path, and a write that finds no
\* entry asks the agent; the cache changes only by the insertion of
\* AllowAlways after Selected allow_always or of RejectAlways after Selected
\* reject_always, made by a write request.
C8_OnceOutcomesNotCached ==
    /\ [](\A c \in Conns :
            /\ (Replied(c) /\ req[c].outcome \in
                    {"allow_once", "reject_once", "other_option", "Cancelled"})
               => /\ ~req[c].inserted
                  /\ req[c].canon \notin DOMAIN cache
            /\ (req[c].lookup = "None") => Asked(c))
    /\ [][cache' # cache =>
            \E c \in Conns :
                /\ IsWrite(c)
                /\ initialized[c]
                /\ \/ /\ req[c].outcome = "allow_always"
                      /\ cache' = MapInsert(cache, req[c].canon, "AllowAlways")
                   \/ /\ req[c].outcome = "reject_always"
                      /\ cache' = MapInsert(cache, req[c].canon, "RejectAlways")]_vars

C8_Witness ==
    \E c \in Conns :
        /\ Replied(c) /\ IsWrite(c)
        /\ req[c].outcome = "allow_once"
        /\ req[c].wrote
        /\ req[c].canon \notin DOMAIN cache

\* C9: a cache entry is applied to writes on every connection, whichever
\* connection inserted it and whether or not that connection is still open: a
\* write read while its path has an entry never asks the agent and is decided
\* by the entry; closing a connection leaves the cache unchanged.
C9_CacheSharedAcrossConnections ==
    /\ [](\A c \in Conns :
            (req[c].known /\ pc[c] # "w_lookup")
            => /\ ~Asked(c)
               /\ req[c].lookup \in {"AllowAlways", "RejectAlways"}
               /\ req[c].lookup = "RejectAlways" => Replied(c) /\ ~req[c].wrote
               /\ req[c].lookup = "AllowAlways" => pc[c] \in {"w_write", "reply"})
    /\ [][\A c \in Conns :
            (pc[c] # "closed" /\ pc'[c] = "closed")
            => (cache' = cache /\ cacheBy' = cacheBy)]_vars

C9_Witness ==
    \E c \in Conns :
        /\ Replied(c) /\ IsWrite(c)
        /\ req[c].known
        /\ req[c].lookup = "AllowAlways"
        /\ req[c].wrote
        /\ cacheBy[req[c].canon] # c
        /\ pc[cacheBy[req[c].canon]] = "closed"

InFrameWrite(c) ==
    (IF pc[c] \in {"reply_send", "pong_send"} THEN {Dispatcher} ELSE {})
        \cup {k \in Senders : sender[c][k] = "send"}

\* C11: a task that is inside the write of a frame (a reply or a pong of the
\* connection task, a notification of a sender task) holds the connection's
\* stream mutex, so at most one task of a connection is inside a frame write
\* at any time; a notification frame appears on the connection only by a step
\* of the sender that holds the mutex.
C11_WritesHoldStreamMutex ==
    /\ [](\A c \in Conns :
            /\ \A w \in InFrameWrite(c) : lock[c] = w
            /\ Cardinality(InFrameWrite(c)) <= 1)
    /\ [][\A c \in Conns :
            Len(out'[c]) > Len(out[c])
            => \E k \in Senders : lock[c] = k /\ sender[c][k] = "send"]_vars

C11_Witness ==
    \E c \in Conns : \E k, j \in Senders :
        /\ sender[c][k] = "send"
        /\ sender[c][j] = "lock"
        /\ pc[c] = "reply"
        /\ lock[c] = k

\* C12: the initialized flag of a connection is false when the connection is
\* created; it turns true only in the step that sends the result reply of an
\* initialize request that was forwarded to the agent and that the agent
\* answered with success; once true it stays true until the connection ends,
\* whatever later requests (a failing initialize included) are answered.
C12_InitializedFlag ==
    /\ [][\A c \in Conns :
            (pc[c] = "closed" /\ pc'[c] # "closed") => ~initialized'[c]]_vars
    /\ [][\A c \in Conns :
            (~initialized[c] /\ initialized'[c])
            => /\ pc[c] = "reply"
               /\ pc'[c] = "read"
               /\ req[c].method = "initialize"
               /\ req[c].agent = {"initialize"}
               /\ req[c].agentOk
               /\ req[c].reply.kind = "result"]_vars
    /\ [][\A c \in Conns :
            (initialized[c] /\ pc'[c] # "closed") => initialized'[c]]_vars

C12_Witness ==
    \E c \in Conns :
        /\ initialized[c]
        /\ Replied(c)
        /\ req[c].method = "initialize"
        /\ req[c].reply.kind = "error"
        /\ req[c].reply.error.code = -32603

\* C13: the result of a successful initialize has an object _meta whose
\* bridgeId is the configured bridge id, whatever _meta the agent returned
\* (none, a value that is no object, an object with or without a bridgeId),
\* and every other key of an agent-supplied _meta object is in the reply with
\* its value unchanged.
C13_BridgeIdStamped ==
    \A c \in Conns :
        (req[c].method = "initialize" /\ req[c].reply.kind = "result")
        => LET m == req[c].reply.result.meta
               a == req[c].agentMeta
           IN  /\ m.kind = "object"
               /\ "bridgeId" \in DOMAIN m.map
               /\ m.map["bridgeId"] = "bridge-test-id"
               /\ a.kind = "object"
                  => \A k \in (DOMAIN a.map) \ {"bridgeId"} :
                         k \in DOMAIN m.map /\ m.map[k] = a.map[k]
               /\ DOMAIN m.map = {"bridgeId"} \cup
                      (IF a.kind = "object" THEN DOMAIN a.map ELSE {})

C13_Witness ==
    \E c \in Conns :
        /\ Replied(c)
        /\ req[c].method = "initialize"
        /\ req[c].reply.kind = "result"
        /\ req[c].agentMeta.kind = "object"
        /\ "bridgeId" \in DOMAIN req[c].agentMeta.map
        /\ req[c].agentMeta.map["bridgeId"] # BridgeId
        /\ req[c].reply.result.meta.map["vendor"] = "acme"

\* C14: every initialize request that the agent answers with success, the
\* first on its connection or a repeated one, gets a result reply with the
\* request's id that carries the configured bridge id; processing an
\* initialize request changes neither the permission cache nor the files, and
\* the reply to a repeated one leaves the connection initialized and idle as
\* it was after the first.
C14_InitializeIdempotent ==
    /\ [](\A c \in Conns :
            (req[c].method = "initialize" /\ req[c].agentOk)
            => /\ Replied(c)
               /\ req[c].reply.kind = "result"
               /\ req[c].reply.id = req[c].id
               /\ req[c].reply.result.meta.kind = "object"
               /\ "bridgeId" \in DOMAIN req[c].reply.result.meta.map
               /\ req[c].reply.result.meta.map["bridgeId"] = BridgeId)
    /\ [][\A c \in Conns :
            (req[c].method = "initialize" \/ req'[c].method = "initialize")
            => /\ cache' = cache
               /\ files' = files
               /\ (initialized[c] /\ pc'[c] # "closed")
                  => (initialized'[c] /\ (pc[c] = "reply" => req'[c] = IdleReq))]_vars

C14_Witness ==
    \E c \in Conns :
        /\ initialized[c]
        /\ Replied(c)
        /\ req[c].method = "initialize"
        /\ req[c].agentOk
        /\ req[c].reply.kind = "result"

\* the origin header is text and byte for byte an entry of the allow-list
OriginOnAllowList(origin) ==
    origin \in { [present |-> TRUE, text |-> TRUE, value |-> a] : a \in allowed_origins }

\* the protocol headers with a candidate that is the configured token up to
\* ASCII case and surrounding whitespace
MatchingProtocols ==
    { ProtocolText(TokenLower),
      ProtocolText(TokenUpper),
      ProtocolText(<<"x", ",", " ">> \o TokenMixed \o <<" ">>) }

\* C15: an upgrade request whose Origin header is missing, not text or not
\* equal to an allow-list entry is answered with HTTP 403, also when its
\* subprotocol header is bad as well; the slot then holds no connection, no
\* request is processed on it and no agent method is called.
C15_BadOriginForbidden ==
    \A c \in Conns :
        (handshake[c].status # 0 /\ ~OriginOnAllowList(handshake[c].origin))
        => /\ handshake[c].status = 403
           /\ handshake[c].echo = <<>>
           /\ pc[c] = "closed"
           /\ ~initialized[c]
           /\ req[c] = IdleReq
           /\ out[c] = <<>>

C15_Witness ==
    \E c \in Conns :
        /\ handshake[c].status = 403
        /\ handshake[c].origin = OriginText("HTTP://LOCALHOST:5173")
        /\ handshake[c].protocol = ProtocolMissing
        /\ pc[c] = "closed"

\* C16: an upgrade request with an allowed origin is accepted exactly when a
\* comma-separated, trimmed candidate of its Sec-WebSocket-Protocol header is
\* the configured subprotocol up to ASCII case; the response to an accepted
\* request carries the configured token and nothing else, and every other
\* request is answered with HTTP 426, opens no connection and reaches no agent.
C16_SubprotocolNegotiated ==
    \A c \in Conns :
        (handshake[c].status # 0 /\ OriginOnAllowList(handshake[c].origin))
        => /\ (handshake[c].status = 101) <=> (handshake[c].protocol \in MatchingProtocols)
           /\ handshake[c].status = 101
              => handshake[c].echo = TokenLower
           /\ handshake[c].status # 101
              => /\ handshake[c].status = 426
                 /\ handshake[c].echo = <<>>
                 /\ pc[c] = "closed"
                 /\ ~initialized[c]
                 /\ req[c] = IdleReq

C16_Witness ==
    \E c \in Conns :
        /\ handshake[c].status = 101
        /\ handshake[c].protocol = ProtocolText(<<"x", ",", " ">> \o TokenMixed \o <<" ">>)
        /\ handshake[c].echo = expected_subprotocol
        /\ initialized[c]

\* C17: a request answered with a JSON-RPC error has inserted no cache entry
\* unless its permission outcome was reject_always, and the step that sends
\* the error reply leaves the connection open and waiting for the next frame
\* with its initialized flag, the cache and the files unchanged.
C17_ErrorsAreLocal ==
    /\ [](\A c \in Conns :
            (Replied(c) /\ req[c].reply.kind = "error" /\ req[c].inserted)
            => req[c].outcome = "reject_always")
    /\ [][\A c \in Conns :
            (pc[c] = "reply" /\ req[c].reply.kind = "error" /\ pc'[c] \notin {"reply", "closed"})
            => /\ pc'[c] = "read"
               /\ initialized'[c] = initialized[c]
               /\ req'[c] = IdleReq
               /\ cache' = cache
               /\ files' = files]_vars

\* C18: a data frame that is not JSON is answered with the error -32700 and id
\* null; its processing calls no agent method, touches neither the file system
\* nor the cache, spawns nothing and writes no other frame; sending the reply
\* leaves the initialized flag as it was and takes the read loop to the next
\* frame.
C18_ParseErrorReply ==
    /\ [](\A c \in Conns :
            ~req[c].json
            => /\ Replied(c)
               /\ req[c].reply = send_error("null", RpcError(-32700, "Parse error", ""))
               /\ req[c].agent = {}
               /\ ~req[c].fsAccess
               /\ ~req[c].cacheAccess
               /\ ~req[c].inserted
               /\ ~req[c].wrote
               /\ ~req[c].spawned
               /\ out[c] = <<>>)
    /\ [][\A c \in Conns :
            (~req[c].json \/ ~req'[c].json)
            => /\ cache' = cache
               /\ files' = files
               /\ pc'[c] # "closed" => initialized'[c] = initialized[c]
               /\ (~req[c].json /\ pc'[c] # "closed")
                  => (pc'[c] = "read" /\ req'[c] = IdleReq)]_vars

C18_Witness ==
    \E c \in Conns :
        /\ ~req[c].json
        /\ Replied(c)
        /\ initialized[c]
        /\ req[c].reply.error.code = -32700

\* C19: once the capture future has matched a URL, the handler is never left
\* waiting for the reader thread while that thread is blocked in a read on an
\* empty PTY of a running child that has nothing more to print, a read that
\* only the exit of the child can end.
C19_ReplyWithoutWaiting ==
    \A c \in Conns :
        ~ /\ pc[c] = "l_join_reader"
          /\ loginState[c].result = "url"
          /\ loginState[c].reader = "read"
          /\ loginState[c].pty = <<>>
          /\ loginState[c].output = <<>>
          /\ loginState[c].child = "running"

\* C20: every auth/cli_login call that spawned the child is answered with a
\* result whose status is "started".
C20_SpawnedRepliesStarted ==
    \A c \in Conns :
        (Replied(c) /\ req[c].method = "auth/cli_login" /\ req[c].spawned)
        => /\ req[c].reply.kind = "result"
           /\ req[c].reply.result.status = "started"

\* the three ways a login call ends once its capture has run
LoginEnded(c) ==
    \/ /\ loginState[c].result = "url"
       /\ extract_login_url(loginState[c].collected) # NoUrl
       /\ req[c].reply = send_result(req[c].id,
              [tag |-> "login", status |-> "started",
               loginUrl |-> extract_login_url(loginState[c].collected)])
    \/ /\ loginState[c].result = "timeout"
       /\ extract_login_url(loginState[c].collected) = NoUrl
       /\ req[c].reply = send_error(req[c].id,
              internal_error("timed out waiting for Claude login URL"))
    \/ /\ loginState[c].result = "eof"
       /\ extract_login_url(loginState[c].collected) = NoUrl
       /\ loginState[c].child = "exited"
       /\ req[c].reply = send_error(req[c].id,
              internal_error("login CLI exited before emitting a login URL"))

C22_StopJoinThenReply ==
    /\ [][\A c \in Conns :
            (InLogin(c) /\ ~InLogin(c)')
            => /\ loginState[c].stop
               /\ loginState[c].writer = "exited"
               /\ loginState[c].reader = "exited"
               /\ Replied(c)']_vars
    /\ \A c \in Conns : InLogin(c) ~> Replied(c)

\* the value of a variable that is set
IsSet(var) == var # EnvUnset

\* C23: the login CLI is resolved by the first rule that matches, in this
\* order: TEST_MODE_FAIL set gives the error -32000 "Unable to locate Claude
\* login CLI" and nothing is spawned, whatever else is available; else
\* TEST_CLAUDE_CLI_PATH set gives that path without arguments, existing or
\* not; else CLAUDE_ACP_BIN set to an existing path gives it without
\* arguments; else the adapter entry and the sibling cli.js in node_modules
\* give node with cli.js as its argument; else claude found on PATH gives it;
\* else the error -32000. A CLAUDE_ACP_BIN that names no existing path is
\* passed over.
C23_FirstMatchWins ==
    \A c \in Conns :
        (Replied(c) /\ req[c].method = "auth/cli_login")
        => LET e == req[c].env
               k == req[c].command
               located == send_error(req[c].id, server_error(UnableToLocate))
               acp == IsSet(e.CLAUDE_ACP_BIN) /\ e.CLAUDE_ACP_BIN[1] \in e.exists
               node == {AcpEntryPath, CliJsPath} \subseteq e.exists
           IN  /\ (~k.ok) <=> (req[c].reply = located)
               /\ (~k.ok) => ~req[c].spawned
               /\ IsSet(e.TEST_MODE_FAIL) => ~k.ok
               /\ (~IsSet(e.TEST_MODE_FAIL) /\ IsSet(e.TEST_CLAUDE_CLI_PATH))
                  => k = [ok |-> TRUE, path |-> e.TEST_CLAUDE_CLI_PATH[1], args |-> <<>>]
               /\ (~IsSet(e.TEST_MODE_FAIL) /\ ~IsSet(e.TEST_CLAUDE_CLI_PATH))
                  => /\ acp => k = [ok |-> TRUE, path |-> e.CLAUDE_ACP_BIN[1], args |-> <<>>]
                     /\ (~acp /\ node)
                        => k = [ok |-> TRUE, path |-> "node", args |-> <<CliJsPath>>]
                     /\ (~acp /\ ~node /\ IsSet(e.which))
                        => k = [ok |-> TRUE, path |-> e.which[1], args |-> <<>>]
                     /\ (~acp /\ ~node /\ ~IsSet(e.which)) => ~k.ok

C23_Witness ==
    \E c \in Conns :
        /\ Replied(c)
        /\ req[c].method = "auth/cli_login"
        /\ req[c].env.TEST_MODE_FAIL = EnvUnset
        /\ req[c].env.TEST_CLAUDE_CLI_PATH = EnvUnset
        /\ req[c].env.CLAUDE_ACP_BIN = <<AcpBinPath>>
        /\ AcpBinPath \notin req[c].env.exists
        /\ req[c].env.which = <<WhichClaudePath>>
        /\ req[c].command = [ok |-> TRUE, path |-> "node", args |-> <<CliJsPath>>]
        /\ req[c].spawned
        /\ req[c].reply.kind = "result"

\* C24: an error returned by listener.accept() leaves the accept loop
\* running: as long as no shutdown signal was sent, the loop is there to
\* accept later connections.
C24_AcceptErrorKeepsLoop ==
    (bridge.failed /\ ~bridge.signal) => bridge.loop = "running"

IsRead(c) == req[c].method = "fs/read_text_file"

\* the read of connection c names a text file the reader can return
Readable(c) ==
    /\ initialized[c]
    /\ req[c].path # <<>>
    /\ ~ForbiddenPath(files, req[c].path, FALSE)
    /\ RealPath(files, req[c].path, FALSE) \in DOMAIN files
    /\ \A i \in 1..Len(files[RealPath(files, req[c].path, FALSE)]) :
           files[RealPath(files, req[c].path, FALSE)][i] \notin {"NUL", "BAD"}

\* the text of that file
TextRead(c) == files[RealPath(files, req[c].path, FALSE)]

\* a JSON number below 2^32
Small(v) == v.u64 /\ v.hi = 0

Max(a, b) == IF a >= b THEN a ELSE b

\* lines from..to of a text (1-based, inclusive), joined with "\n"
LinesFromTo(text, from, to) == Join(SubSeq(Lines(text), from, to))

\* C26: a read of a readable text with line array L, offset M and limit N
\* (each absent or below 2^32) is answered with a result, never an error; its
\* content is the whole text when both are absent, the first min(N, |L|)
\* lines when only N is given, the lines from max(M, 1) to the last one when
\* only M is given, and the lines from max(M, 1) to min(max(M, 1) - 1 + N, |L|)
\* when both are given, joined with single newlines; when M + N exceeds |L|
\* these are the lines M to |L|.
C26_LineFilter ==
    \A c \in Conns :
        (Replied(c) /\ IsRead(c) /\ Readable(c)
            /\ (req[c].line_offset.u64 => Small(req[c].line_offset))
            /\ (req[c].line_limit.u64 => Small(req[c].line_limit)))
        => LET text == TextRead(c)
               len == Len(Lines(text))
               hasM == req[c].line_offset.u64
               hasN == req[c].line_limit.u64
               M == req[c].line_offset.lo
               N == req[c].line_limit.lo
           IN  /\ req[c].reply.kind = "result"
               /\ req[c].reply.id = req[c].id
               /\ (~hasM /\ ~hasN) => req[c].reply.result.content = text
               /\ (~hasM /\ hasN)
                  => req[c].reply.result.content = LinesFromTo(text, 1, Min(N, len))
               /\ (hasM /\ ~hasN)
                  => req[c].reply.result.content = LinesFromTo(text, Max(M, 1), len)
               /\ (hasM /\ hasN)
                  => /\ req[c].reply.result.content =
                            LinesFromTo(text, Max(M, 1), Min(Max(M, 1) - 1 + N, len))
                     /\ (M + N > len)
                        => req[c].reply.result.content = LinesFromTo(text, Max(M, 1), len)

C26_Witness ==
    \E c \in Conns :
        /\ Replied(c) /\ IsRead(c) /\ Readable(c)
        /\ TextRead(c) = <<"a", "\n", "b", "\n", "c">>
        /\ req[c].line_offset = JsonU64(0, 2)
        /\ req[c].line_limit = JsonU64(0, 2)
        /\ req[c].reply.kind = "result"
        /\ req[c].reply.result.content = <<"b", "\n", "c">>

\* C27: a read of a readable text whose line_offset, any JSON integer from 0
\* up, those at and above 2^32 included, is greater than the number of lines
\* of the text is answered with a result whose content is the empty string,
\* with or without line_limit; and a read with line_offset 0 is answered as
\* the same read with line_offset 1.
C27_OffsetPastEnd ==
    \A c \in Conns :
        (Replied(c) /\ IsRead(c) /\ Readable(c) /\ req[c].line_offset.u64)
        => LET len == Len(Lines(TextRead(c)))
               off == req[c].line_offset
           IN  /\ (off.hi > 0 \/ off.lo > len)
                  => req[c].reply = send_result(req[c].id,
                         [tag |-> "content", content |-> <<>>])
               /\ (off = JsonU64(0, 0))
                  => /\ req[c].reply.kind = "result"
                     /\ req[c].reply.result.content =
                            handle_read_text_file(files, req[c].path, 1,
                                AsU32(req[c].line_limit)).content

CanonicalKey(c) == PathString(RealPath(files, req[c].path, TRUE))

\* the write of connection c is past its sandbox check and not yet answered
Writing(c) == IsWrite(c) /\ pc[c] \in {"w_lookup", "w_perm", "w_insert", "w_write"}

\* C29: a write request that passed the sandbox carries one canonical path,
\* which is the canonical path of the file its client path names and is not
\* forbidden; the cache is looked up under it, a cache entry is inserted
\* under it, and the file written is the file it names. So two writes whose
\* client paths name the same file carry the same key, and the second finds
\* the entry the first inserted.
C29_OneCanonicalPath ==
    /\ [](\A c \in Conns :
            Writing(c) => /\ req[c].canon = CanonicalKey(c)
                          /\ ~StartsWithForbidden(req[c].canon))
    /\ [](\A c, d \in Conns :
            (Writing(c) /\ Writing(d)
                /\ RealPath(files, req[c].path, TRUE) = RealPath(files, req[d].path, TRUE))
            => req[c].canon = req[d].canon)
    /\ [][\A c \in Conns :
            (Writing(c) /\ pc[c] = "w_lookup" /\ pc'[c] # "w_lookup")
            => req'[c].lookup = MapGet(cache, CanonicalKey(c))]_vars
    /\ [][cache' # cache
            => \E c \in Conns :
                   /\ Writing(c) /\ pc[c] = "w_insert"
                   /\ DOMAIN cache' = DOMAIN cache \cup {CanonicalKey(c)}
                   /\ \A k \in DOMAIN cache \ {CanonicalKey(c)} : cache'[k] = cache[k]]_vars
    /\ [][files' # files
            => \E c \in Conns :
                   /\ Writing(c) /\ pc[c] = "w_write"
                   /\ DOMAIN files' = DOMAIN files \cup {RealPath(files, req[c].path, TRUE)}
                   /\ \A k \in DOMAIN files \ {RealPath(files, req[c].path, TRUE)} :
                          files'[k] = files[k]]_vars

C29_Witness ==
    \E c, d \in Conns :
        /\ c # d
        /\ Replied(c) /\ IsWrite(c)
        /\ req[c].path = <<"a.txt">>
        /\ req[c].outcome = "allow_always"
        /\ req[c].inserted
        /\ Replied(d) /\ IsWrite(d)
        /\ req[d].path = <<"", "work", "a.txt">>
        /\ req[d].known
        /\ req[d].lookup = "AllowAlways"
        /\ ~Asked(d)
        /\ req[d].wrote
        /\ cacheBy[req[d].canon] = c

\* Upgrade requests to the standalone binary that name acp.jsonrpc.v1 among
\* their comma-separated candidates, and ones that do not: no header, a header
\* that is not text, the name in another case, other names, a longer name and
\* the name cut by a comma
OffersAcp ==
    { ProtocolText(TokenLower),
      ProtocolText(TokenLower \o <<",", " ", "x">>),
      ProtocolText(<<"x", ",", " ">> \o TokenLower \o <<" ">>) }
OffersNoAcp == MainProtocols \ OffersAcp

\* the connection of slot c was upgraded after a request with the allowed
\* origin and without the candidate
PolicyConn(c) ==
    /\ handshake[c].origin = GoodOrigin
    /\ handshake[c].protocol \in OffersNoAcp
    /\ handshake[c].status # 0

\* C30: in the standalone binary a handshake with the allowed origin and no
\* candidate equal to acp.jsonrpc.v1 is upgraded (status 101, no subprotocol
\* echoed), its task never reads a request (no request is taken up, no file is
\* read, no response is written), the only frame ever written to it is
\* Close 1008, and that frame is eventually written and the task ended; when
\* acp.jsonrpc.v1 is among the candidates the response echoes exactly
\* acp.jsonrpc.v1
C30_PolicyClose ==
    /\ [](\A c \in Clients :
            /\ PolicyConn(c) =>
                  /\ handshake[c].status = 101
                  /\ handshake[c].echo = <<>>
                  /\ pc[c] \in {"m_close", "closed"}
                  /\ req[c] = IdleReq
                  /\ out[c] = IF pc[c] = "m_close" THEN <<>>
                              ELSE <<MainCloseFrame(1008)>>
            /\ (handshake[c].origin = GoodOrigin /\ handshake[c].protocol \in OffersAcp) =>
                  /\ handshake[c].status = 101
                  /\ handshake[c].echo = TokenLower)
    /\ \A c \in Clients :
           (PolicyConn(c) /\ pc[c] = "m_close")
               ~> (PolicyConn(c) /\ pc[c] = "closed"
                   /\ out[c] = <<MainCloseFrame(1008)>>)

\* a connection that offered "x, y" was upgraded, got Close 1008 as its only
\* frame and its task has ended
C30_Witness ==
    \E c \in Clients :
        /\ PolicyConn(c)
        /\ handshake[c].protocol = ProtocolText(<<"x", ",", " ", "y">>)
        /\ handshake[c].status = 101
        /\ pc[c] = "closed"
        /\ out[c] = <<MainCloseFrame(1008)>>

\* the file a path sent to the standalone binary designates (NoPath when
\* there is none), and whether that file lies outside every project root
MainLocation(path) == Canonicalize(files, ResolvedPath(path))
OutsideRoots(path) ==
    /\ MainLocation(path) \in DOMAIN files
    /\ \A root \in project_roots :
           LET r == Components(root)
               l == MainLocation(path)
           IN  ~(Len(l) >= Len(r) /\ SubSeq(l, 1, Len(r)) = r)

\* the connection of slot c has taken up a read of path and is back at the
\* top of its loop: the last frame written is the reply to that request
MainReadDone(c) ==
    /\ pc[c] = "m_read"
    /\ req[c].method = "fs/read_text_file"
    /\ req[c].path # <<>>
    /\ Len(out[c]) > 0

\* C31: in the standalone binary a read of a path that designates a file
\* outside every project root does not read the file and is answered with
\* error -32000 whose data carries details; content is returned only for a
\* file inside a project root
C31_ReadsOnlyInsideRoots ==
    \A c \in Clients :
        /\ (req[c].method = "fs/read_text_file" /\ req[c].path # <<>>
               /\ OutsideRoots(req[c].path))
              => ~req[c].fsAccess
        /\ (MainReadDone(c) /\ OutsideRoots(req[c].path))
              => LET reply == out[c][Len(out[c])]
                 IN  /\ reply.kind = "error"
                     /\ reply.code = -32000
                     /\ reply.details
        /\ (MainReadDone(c) /\ out[c][Len(out[c])].kind = "result")
              => ~OutsideRoots(req[c].path)

\* connection c waits for the agent's answer or is about to write the file
SlowStep(c) == pc[c] \in {"w_perm", "w_write"}

\* connection c waits for the cache mutex
WantsCache(c) == pc[c] \in {"w_lookup", "w_insert"}

\* C32: the mutex of the permission cache is held only inside a lookup or an
\* insert, never by a task that waits for agent.request_permission or is at
\* its file write; and a connection that wants the cache gets it however long
\* the agent or a file write of another connection takes
C32_CacheLockIsShort ==
    /\ [](\A c \in Writers :
            /\ cacheLock = c => pc[c] \in {"w_lookup_get", "w_insert_put"}
            /\ SlowStep(c) => cacheLock # c)
    /\ \A d \in Writers : WantsCache(d) ~> ~WantsCache(d)

\* connection 1 waits for the agent while connection 2 is inside its lookup
C32_Witness ==
    /\ pc[1] = "w_perm"
    /\ pc[2] = "w_lookup_get"
    /\ cacheLock = 2

\* C33: under every interleaving of the writes of several connections,
\* fs::write is not called for a path at a moment when the cache holds
\* RejectAlways for it
C33_RejectAlwaysBlocksWrites ==
    [][\A c \in Conns :
          (pc[c] = "w_write" /\ req'[c].wrote /\ ~req[c].wrote)
              => MapGet(cache, req[c].canon) # "RejectAlways"]_vars

\* a request of connection c was read and its reply is not sent yet
InProgress(c) == req[c] # IdleReq

\* C34: within one connection at most one request is in progress: the read
\* loop goes to its next read only when no request is in progress, a request
\* in progress is never replaced by another one, the reply that is sent is the
\* reply to the request in progress and ends it, and a pong is sent only when
\* no request is in progress
C34_OneRequestAtATime ==
    [][\A c \in Clients :
          /\ (pc'[c] = "r_next" /\ pc[c] # "r_next") => ~InProgress(c)
          /\ (InProgress(c) /\ req'[c] # req[c] /\ req'[c] # IdleReq)
                => /\ req'[c].id = req[c].id
                   /\ req'[c].method = req[c].method
          /\ (~InProgress(c) /\ req'[c] # IdleReq) => pc[c] = "read"
          /\ (pc[c] = "reply_send" /\ pc'[c] # "reply_send")
                => /\ InProgress(c)
                   /\ req[c].reply.kind # "none"
                   /\ req[c].reply.id = req[c].id
                   /\ req'[c] = IdleReq
          /\ (pc[c] = "pong_send" /\ pc'[c] # "pong_send") => ~InProgress(c)]_vars

\* a ping is being answered on a connection whose initialize was answered,
\* with no request in progress
C34_Witness ==
    /\ pc[1] = "pong_send"
    /\ initialized[1]
    /\ ~InProgress(1)

\* C35: every data frame taken up on a connection is answered with exactly
\* one reply frame, a result or an error, that carries the id of the request
\* (null when the frame is not JSON), -32600 when the method is missing: a
\* request ends only by the send of its reply (or with the connection), the
\* send of the reply ends it, and the connection is back at its read only
\* with no request in progress; the frames of the notification sender carry a
\* method and no id
C35_OneReplyPerFrame ==
    /\ [](\A c \in Clients :
            /\ Replied(c) =>
                  /\ req[c].reply.kind \in {"result", "error"}
                  /\ req[c].reply.id = req[c].id
                  /\ ~req[c].json =>
                        /\ req[c].reply.id = "null"
                        /\ req[c].reply.kind = "error"
                  /\ (req[c].json /\ req[c].method = "") =>
                        /\ req[c].reply.kind = "error"
                        /\ req[c].reply.error.code = -32600
            /\ pc[c] \in {"read", "closed"} => ~InProgress(c)
            /\ \A i \in 1..Len(out[c]) :
                  /\ "id" \notin DOMAIN out[c][i]
                  /\ "method" \in DOMAIN out[c][i])
    /\ [][\A c \in Clients :
            /\ (InProgress(c) /\ ~InProgress(c)' /\ pc'[c] # "closed") => Replied(c)
            /\ (Replied(c) /\ ~Replied(c)') => ~InProgress(c)'
            /\ (pc[c] = "read" /\ pc'[c] \notin {"read", "closed"}) => InProgress(c)']_vars

\* the reply of a login that spawned the CLI is ready and carries the id of
\* the request
C35_Witness ==
    /\ Replied(1)
    /\ req[1].id = "req-1"
    /\ req[1].reply.id = "req-1"
    /\ req[1].method = "auth/cli_login"
    /\ req[1].spawned

\* C36: the read loop does not hold the stream mutex while a prompt is
\* outstanding, and a send_notification issued during a prompt never waits
\* for the mutex behind the read loop's wait for the client's next frame (so
\* it completes without another frame from the client)
C36_SendersNeverWaitForClient ==
    \A c \in Clients :
        /\ pc[c] = "prompt" => lock[c] # Dispatcher
        /\ \A k \in Senders :
               sender[c][k] = "lock" => ~(pc[c] = "r_next" /\ lock[c] = Dispatcher)

\* s is the beginning of t
IsPrefix(s, t) == Len(s) <= Len(t) /\ SubSeq(t, 1, Len(s)) = s

\* the positions where "https://" begins in a stream, the positions of
\* terminators after the first of them, and the token the stream holds: from
\* the first "https://" up to, not including, the first terminator after it
TokenStarts(o) == {i \in 1..(Len(o) - 1) : o[i] = "https" /\ o[i + 1] = "://"}
FirstOf(S) == CHOOSE i \in S : \A j \in S : i <= j
TokenEnds(o) ==
    {j \in 1..Len(o) :
        /\ j > FirstOf(TokenStarts(o))
        /\ o[j] \in {" ", "\n", "\t", "QUOTE", "APOSTROPHE", "BEL", "ESC"}}
HasTerminatedToken(o) == TokenStarts(o) # {} /\ TokenEnds(o) # {}
CompleteToken(o) == SubSeq(o, FirstOf(TokenStarts(o)), FirstOf(TokenEnds(o)) - 1)

\* C37: whatever way the reads split the output of the child, the loginUrl
\* of a result is the complete token of the output stream, whenever that
\* stream holds an https:// token followed by a terminator (what the capture
\* collected is the beginning of the stream)
C37_UrlIndependentOfChunks ==
    \A c \in Clients :
        (Replied(c) /\ req[c].method = "auth/cli_login" /\ req[c].reply.kind = "result")
            => \A o \in LoginOutputs :
                   (IsPrefix(loginState[c].collected, o) /\ HasTerminatedToken(o))
                       => req[c].reply.result.loginUrl = CompleteToken(o)

\* the steps of shutdown: the signal, the end of the accept loop, the
\* completion of the shutdown future
ShutdownStep ==
    \/ bridge'.signal # bridge.signal
    \/ bridge'.loop # bridge.loop
    \/ bridge'.shutdown # bridge.shutdown

\* C38: shutting down the bridge does not terminate established connections:
\* no step of the shutdown changes anything of a connection or of the cache,
\* and after the shutdown future has completed an open connection can still
\* have a request dispatched, its cache lookup and insert done, its file
\* written and its reply sent
C38_ShutdownKeepsConnections ==
    /\ [][ShutdownStep =>
             UNCHANGED <<initialized, pc, req, out, cache, cacheBy, files>>]_vars
    /\ [](bridge.shutdown = "ok" =>
            \A c \in Writers :
                /\ (pc[c] = "read" /\ initialized[c]) =>
                       ENABLED RecvWrite(c, "req-1", "none", <<"a.txt">>, <<"a">>, TRUE)
                /\ pc[c] = "w_lookup" => ENABLED Lookup(c)
                /\ pc[c] = "w_perm" => ENABLED PermissionReturns(c, "allow_always")
                /\ pc[c] = "w_insert" => ENABLED Insert(c)
                /\ pc[c] = "w_write" => ENABLED Write(c, TRUE)
                /\ pc[c] = "reply" => ENABLED SendReply(c, TRUE))

\* the shutdown future has completed, and a connection accepted before the
\* signal is about to look up, for its write, a path that the other
\* connection has put into the cache
C38_Witness ==
    /\ bridge.shutdown = "ok"
    /\ ~bridge.late
    /\ \E c, d \in Writers :
           /\ c # d
           /\ pc[c] = "w_lookup"
           /\ req[c].canon \in DOMAIN cache
           /\ cacheBy[req[c].canon] = d
           /\ pc[d] = "read"

\* a cache key is the string of a canonical path: the path of an existing entry
\* that realpath maps to itself, or of a file still missing in a directory
\* that realpath maps to itself
IsCanonicalString(fs, k) ==
    LET p == Components(k)
    IN  /\ k = PathString(p)
        /\ \/ Canonicalize(fs, p) = p
           \/ /\ Canonicalize(fs, p) = NoPath
              /\ p # <<>>
              /\ FileName(p) # "?"
              /\ Canonicalize(fs, Parent(p)) = Parent(p)

\* the connection whose cache.insert adds the key k in this step
Inserter(c, k) ==
    /\ pc[c] = "w_insert"
    /\ initialized[c]
    /\ IsWrite(c)
    /\ k = req[c].canon
    /\ ~ForbiddenPath(files, req[c].path, TRUE)
    /\ cacheBy'[k] = c

\* C39: every key of the permission cache is a canonical path that begins
\* with none of the forbidden prefixes, and a key enters the cache only by
\* the insert of a write request on an initialized connection whose path
\* passed both prefix checks of the sandbox; a rejected path and a request
\* before initialize create no entry.
C39_CacheKeysAreSandboxed ==
    /\ [](\A k \in DOMAIN cache :
             /\ ~StartsWithForbidden(k)
             /\ IsCanonicalString(files, k))
    /\ [][\A k \in (DOMAIN cache') \ (DOMAIN cache) :
             \E c \in Conns : Inserter(c, k)]_vars
    /\ [](\A c \in Conns :
             (\/ ~initialized[c]
              \/ (req[c].path # <<>> /\ IsWrite(c)
                  /\ ForbiddenPath(files, req[c].path, TRUE)))
             => ~req[c].inserted)

\* a write through another name of the file has put the canonical path of the
\* file, not the name the client gave, in the cache
C39_Witness ==
    \E c \in Conns :
        /\ initialized[c]
        /\ req[c].inserted
        /\ req[c].path = <<".", "a.txt">>
        /\ req[c].canon = <<"", "work", "a.txt">>
        /\ req[c].canon \in DOMAIN cache
        /\ cacheBy[req[c].canon] = c

\* the reply of connection d about to be sent is the result of its initialize
OwnInitializeReply(d) ==
    /\ pc[d] = "reply"
    /\ req[d].method = "initialize"
    /\ req[d].reply.kind = "result"

\* C40: the initialized flag belongs to one connection. A connection becomes
\* initialized only by the reply to its own successful initialize, whatever
\* the other connections of the bridge do; a connection that is opened starts
\* with the flag false, whatever happened on the bridge before; and a write on
\* a connection that is not initialized is refused with method_not_found even
\* while another connection is initialized.
C40_InitializedPerConnection ==
    /\ [][\A d \in Conns :
             /\ (initialized'[d] /\ ~initialized[d])
                => (OwnInitializeReply(d) /\ pc'[d] = "read")
             /\ (pc[d] = "closed" /\ pc'[d] # "closed") => ~initialized'[d]]_vars
    /\ [](\A d \in Conns :
             (~initialized[d] /\ IsWrite(d))
             => /\ Replied(d)
                /\ req[d].reply = send_error(req[d].id, method_not_found))

\* two connections are open at once: one is initialized, and the write of the
\* other, which is not, has just been refused
C40_Witness ==
    \E c \in Conns, d \in Conns :
        /\ c # d
        /\ initialized[c]
        /\ pc[c] # "closed"
        /\ ~initialized[d]
        /\ IsWrite(d)
        /\ Replied(d)
        /\ req[d].reply = send_error(req[d].id, method_not_found)

====
